---- MODULE Spec2Model ----
(***************************************************************************)
(* State-machine model of the INN lookup bot (inn-telegram-bot).  The      *)
(* repository holds several iterations of the same bot over the same four  *)
(* storage tables; the variable bot says which iteration is deployed, and  *)
(* each iteration has its own actions and specifications:                  *)
(*   SpecP4Seq, SpecP4Day, SpecP4   src/unnamed/part_004                   *)
(*   SpecIdx                        src/index.js                           *)
(*   SpecP5                         src/unnamed/part_005                   *)
(*   SpecP0                         src/unnamed/part_000                   *)
(*   SpecP1                         src/unnamed/part_001                   *)
(*   SpecCache                      part_004 and part_001                  *)
(*   SpecText                       part_004 and part_000                  *)
(*   SpecAck                        index.js and part_005                  *)
(*   SpecP4Err, SpecErr             failing calls                          *)
(*   SpecP4Net                      part_004, providers by attempt         *)
(*   SpecRender                     HTML replies of three iterations       *)
(*   SpecNorm                       part_000, normalizeCompany             *)
(*   SpecPro                        part_001 and part_002, PRO test        *)
(*   SpecP5Conc                     part_005, overlapping updates          *)
(*   SpecP0Rows                     part_000, bot_quota_daily by row       *)
(*   SpecSub                        index.js, subscriptions iteration      *)
(*   SpecIdxRows                    index.js, inn_checks by row            *)
(*   SpecTrip                       part_001, cache round trip             *)
(*   SpecP1Sel, SpecP1Start         part_001, failing select and send      *)
(*   SpecRetry                      part_004, withRetries                  *)
(*   SpecP4Again                    part_004, an update delivered again    *)
(*   SpecReply                      fresh and cached replies               *)
(*   SpecSecret                     part_005 and part_002, secret token    *)
(* Time is counted in hours; a calendar day is 24 hours.                   *)
(***************************************************************************)
EXTENDS Integers, Sequences, FiniteSets, TLC

VARIABLES
  now,     \* wall clock, hours since the epoch of the model
  bot,     \* which iteration of the bot is deployed
  cfg,     \* environment: which of the optional settings are present
  users,   \* table bot_users: tg_user_id -> row
  quota,   \* table bot_quota_daily: <<tg_user_id, day>> -> used count
  cache,   \* table inn_cache: inn -> [result, updated_at]
  checks,  \* table inn_checks: tg_user_id -> number of rows
  h,       \* in-flight update handlers (one per connection)
  hist,    \* observation: today's replies per user (results sent, limit messages sent)
  n        \* number of updates delivered so far

vars == <<now, bot, cfg, users, quota, cache, checks, h, hist, n>>

(***************************************************************************)
(* Bounds of the model                                                     *)
(***************************************************************************)
MaxTicks == 3       \* the clock advances at most this many half days
MaxUpdates == 4     \* updates delivered to one bot
NProc == 2          \* updates handled concurrently

(***************************************************************************)
(* Program constants                                                       *)
(***************************************************************************)
FREE_DAILY_LIMIT == 3
CACHE_TTL_HOURS == 24

Users == {"u1", "u2"}
Procs == 1..NProc

(***************************************************************************)
(* Message texts, as sequences of characters                               *)
(***************************************************************************)
Digits == {"0", "1", "2", "3", "4", "5", "6", "7", "8", "9"}
Blank == {" ", "\t", "\n"}

TxtStart == <<"/", "s", "t", "a", "r", "t">>
Txt5 == <<"1", "2", "3", "4", "5">>
Txt10 == <<"7", "7", "0", "7", "0", "8", "3", "8", "9", "3">>
Txt12 == <<"5", "0", "0", "1", "0", "0", "7", "3", "2", "2", "5", "9">>
Txt11 == <<"7", "7", "0", "7", "0", "8", "3", "8", "9", "3", "1">>
Txt10Pad == <<" ">> \o Txt10 \o <<"\n">>
Txt10Bad == <<"7", "7", "0", "7", "0", "8", "3", "8", "9", "x">>

Texts == {TxtStart, Txt5, Txt10, Txt12, Txt11, Txt10Pad, Txt10Bad}

RECURSIVE TrimLeft(_)
TrimLeft(s) == IF s # <<>> /\ Head(s) \in Blank THEN TrimLeft(Tail(s)) ELSE s

RECURSIVE TrimRight(_)
TrimRight(s) ==
  IF s # <<>> /\ s[Len(s)] \in Blank THEN TrimRight(SubSeq(s, 1, Len(s) - 1)) ELSE s

trim(s) == TrimRight(TrimLeft(s))

AllDigits(s, len) == Len(s) = len /\ \A i \in 1..Len(s) : s[i] \in Digits

todayISO == now \div 24

(***************************************************************************)
(* Storage primitives                                                      *)
(***************************************************************************)
Has(tbl, key) == key \in DOMAIN tbl

sbUpsert(tbl, key, row) ==
  [k \in DOMAIN tbl \cup {key} |-> IF k = key THEN row ELSE tbl[k]]

NoTable == [k \in {} |-> 0]

\* observation: how old the cache row of a tax id is, -1 when there is none
RowAge(tbl, inn) == IF Has(tbl, inn) THEN now - tbl[inn].updated_at ELSE -1

(***************************************************************************)
(* part_004: configuration, rows and pure helpers                          *)
(***************************************************************************)
\* a faulty isInn that accepts any run of digits
isInnAnyLength(text) == LET s == trim(text) IN s # <<>> /\ AllDigits(s, Len(s))

isInn(text) == LET s == trim(text) IN AllDigits(s, 10) \/ AllDigits(s, 12)

P4Configs ==
  {[HAS_SB |-> TRUE, DADATA_TOKEN |-> TRUE, CHECKO_API_KEY |-> TRUE],
   [HAS_SB |-> TRUE, DADATA_TOKEN |-> FALSE, CHECKO_API_KEY |-> FALSE],
   [HAS_SB |-> FALSE, DADATA_TOKEN |-> TRUE, CHECKO_API_KEY |-> TRUE]}

FreeRow == [plan |-> "free", has_until |-> FALSE, pro_until |-> 0]

isProUser(user) ==
  IF user.plan = "pro"
    THEN IF ~user.has_until THEN TRUE ELSE user.pro_until > now
    ELSE FALSE

\* ensureUser: the upsert sends plan "free" and pro_until null and merges them
\* over the stored row; the returned representation is the row as stored
ensureUser(tbl, u) == sbUpsert(tbl, u, FreeRow)

\* outcomes of one provider call, as handleInn sees them after its .catch
dadataByInn(conf) == IF ~conf.DADATA_TOKEN THEN {"demo"} ELSE {"ok", "error"}

checkoByInn(conf) == IF ~conf.CHECKO_API_KEY THEN {"demo"} ELSE {"ok", "error"}

NoRes == [dadata |-> "-", checko |-> "-"]

\* a faulty getCachedInn that serves the row whatever its age
getCachedInnNoTtl(tbl, inn) == IF ~Has(tbl, inn) THEN NoRes ELSE tbl[inn].result

\* getCachedInn: the row of the tax id, null once it is older than the TTL
getCachedInn(tbl, inn) ==
  IF ~Has(tbl, inn) THEN NoRes
  ELSE IF now - tbl[inn].updated_at > CACHE_TTL_HOURS THEN NoRes
  ELSE tbl[inn].result

\* saveCachedInn: upsert of the combined provider results under the tax id
saveCachedInn(tbl, inn, res) ==
  sbUpsert(tbl, inn, [result |-> res, updated_at |-> now])

getDailyCount(tbl, u) ==
  IF Has(tbl, <<u, todayISO>>) THEN tbl[<<u, todayISO>>] ELSE 0

\* a faulty incDailyCount that writes the literal cnt of its row template
incDailyCountNoAdd(tbl, u, current) == sbUpsert(tbl, <<u, todayISO>>, 1)

\* incDailyCount after its read: upsert of the row with cnt = read value + 1
incDailyCount(tbl, u, current) == sbUpsert(tbl, <<u, todayISO>>, current + 1)

\* inn_checks is only ever inserted into: the model keeps the number of rows per user
saveCheckLog(log, u) == sbUpsert(log, u, IF Has(log, u) THEN log[u] + 1 ELSE 1)

\* resp is the status of the HTTP response of the update (0: none sent yet);
\* posts, dreq, creq count the HTTP requests made for the current Telegram
\* message and to each provider; dnet, cnet are what the attempts of each
\* provider request met, dOut, cOut what the two promises of Promise.all
\* settled with, and first is the provider whose promise settled first;
\* cnt0 and log0 are the day's count and the number of log rows of the user
\* when handleInn began, prov is the provider of the log row it wrote
P4Idle ==
  [pc |-> "idle", u |-> "-", txt |-> <<>>, row |-> FreeRow, cur |-> 0,
   res |-> NoRes, hit |-> FALSE, age |-> -1, kind |-> "-",
   resp |-> 0, posts |-> 0, dreq |-> 0, creq |-> 0, first |-> "-",
   dnet |-> <<>>, cnet |-> <<>>, dOut |-> "-", cOut |-> "-",
   cnt0 |-> 0, log0 |-> 0, prov |-> "-"]

\* handleUpdate returned: json(res, 200, { ok: true })
P4Done == [P4Idle EXCEPT !.resp = 200]

\* handleUpdate threw: json(res, 500, { ok: false, error: e.message })
P4Failed == [P4Idle EXCEPT !.resp = 500]

\* today's tally of one user: quota decisions taken, results sent, limit messages sent
NoHist == [calls |-> 0, served |-> 0, rejected |-> 0]

InitP4 ==
  /\ now = 0
  /\ bot = "part_004"
  /\ cfg \in P4Configs
  /\ users = NoTable
  /\ quota = NoTable
  /\ cache = NoTable
  /\ checks = NoTable
  /\ h = [p \in Procs |-> P4Idle]
  /\ hist = [u \in Users |-> NoHist]
  /\ n = 0

AllIdle == \A p \in Procs : h[p].pc = "idle"

(***************************************************************************)
(* part_004: the webhook handler, one action per await on shared state     *)
(***************************************************************************)
\* POST /webhook with a message update of user u and text t: handleUpdate starts
P4Receive(p, u, t) ==
  /\ bot = "part_004"
  /\ h[p].pc = "idle"
  /\ n < MaxUpdates
  /\ n' = n + 1
  /\ h' = [h EXCEPT ![p] = [P4Idle EXCEPT !.pc = "ensureUser", !.u = u, !.txt = trim(t)]]
  /\ UNCHANGED <<now, bot, cfg, users, quota, cache, checks, hist>>

\* handleUpdate: ensureUser (a failure is caught and logged), then the dispatch
P4EnsureUser(p) ==
  /\ bot = "part_004"
  /\ h[p].pc = "ensureUser"
  /\ \E stored \in (IF cfg.HAS_SB THEN BOOLEAN ELSE {FALSE}) :
       LET me == h[p]
           tbl == IF stored THEN ensureUser(users, me.u) ELSE users
           row == IF stored THEN tbl[me.u] ELSE FreeRow
           next == IF me.txt = TxtStart THEN [me EXCEPT !.pc = "send", !.kind = "start"]
                   ELSE IF isInn(me.txt) THEN [me EXCEPT !.pc = "gate"]
                   ELSE [me EXCEPT !.pc = "send", !.kind = "hint"]
       IN /\ users' = tbl
          /\ h' = [h EXCEPT ![p] = [next EXCEPT !.row = row]]
  /\ UNCHANGED <<now, bot, cfg, quota, cache, checks, hist, n>>

\* handleInn: the quota gate; over the limit the limit message is the whole reply
P4Gate(p) ==
  /\ bot = "part_004"
  /\ h[p].pc = "gate"
  /\ LET me == h[p]
         pro == isProUser(me.row)
     IN IF cfg.HAS_SB /\ ~pro /\ getDailyCount(quota, me.u) >= FREE_DAILY_LIMIT
          THEN /\ h' = [h EXCEPT ![p] = P4Done]
               /\ hist' = [hist EXCEPT ![me.u].calls = @ + 1, ![me.u].rejected = @ + 1]
          ELSE /\ h' = [h EXCEPT ![p].pc = "cache",
                                 ![p].cnt0 = getDailyCount(quota, me.u),
                                 ![p].log0 = IF Has(checks, me.u) THEN checks[me.u] ELSE 0]
               /\ hist' = [hist EXCEPT ![me.u].calls = @ + 1]
  /\ UNCHANGED <<now, bot, cfg, users, quota, cache, checks, n>>

\* handleInn: the cache lookup; a miss sends the progress message and asks both providers
P4Cache(p) ==
  /\ bot = "part_004"
  /\ h[p].pc = "cache"
  /\ LET me == h[p]
         cached == IF cfg.HAS_SB THEN getCachedInn(cache, me.txt) ELSE NoRes
         age == IF cfg.HAS_SB THEN RowAge(cache, me.txt) ELSE -1
         pro == isProUser(me.row)
     IN IF cached # NoRes
          THEN h' = [h EXCEPT ![p] =
                  [me EXCEPT !.res = cached, !.hit = TRUE, !.age = age,
                            !.pc = IF pro THEN "log" ELSE "incRead"]]
          ELSE \E d \in dadataByInn(cfg), c \in checkoByInn(cfg) :
                 h' = [h EXCEPT ![p] =
                    [me EXCEPT !.res = [dadata |-> d, checko |-> c], !.age = age,
                              !.pc = "saveCache"]]
  /\ UNCHANGED <<now, bot, cfg, users, quota, cache, checks, hist, n>>

\* handleInn: "Save cache", whatever the providers returned
P4SaveCache(p) ==
  /\ bot = "part_004"
  /\ h[p].pc = "saveCache"
  /\ LET me == h[p]
         pro == isProUser(me.row)
     IN /\ cache' = IF cfg.HAS_SB THEN saveCachedInn(cache, me.txt, me.res) ELSE cache
        /\ h' = [h EXCEPT ![p].pc = IF cfg.HAS_SB /\ ~pro THEN "incRead" ELSE "log"]
  /\ UNCHANGED <<now, bot, cfg, users, quota, checks, hist, n>>

\* incDailyCount, first half: select the current row
P4IncRead(p) ==
  /\ bot = "part_004"
  /\ h[p].pc = "incRead"
  /\ h' = [h EXCEPT ![p].cur = getDailyCount(quota, h[p].u), ![p].pc = "incWrite"]
  /\ UNCHANGED <<now, bot, cfg, users, quota, cache, checks, hist, n>>

\* incDailyCount, second half: the upsert
P4IncWrite(p) ==
  /\ bot = "part_004"
  /\ h[p].pc = "incWrite"
  /\ quota' = incDailyCount(quota, h[p].u, h[p].cur)
  /\ h' = [h EXCEPT ![p].pc = "log"]
  /\ UNCHANGED <<now, bot, cfg, users, cache, checks, hist, n>>

\* saveCheckLog, then the reply is due
P4Log(p) ==
  /\ bot = "part_004"
  /\ h[p].pc = "log"
  /\ checks' = IF cfg.HAS_SB THEN saveCheckLog(checks, h[p].u) ELSE checks
  /\ h' = [h EXCEPT ![p].pc = "send", ![p].kind = "result",
                    ![p].prov = IF h[p].hit THEN "cache" ELSE "mix"]
  /\ UNCHANGED <<now, bot, cfg, users, quota, cache, hist, n>>

\* the last sendMessage of the update (greeting, hint or result), then res 200
P4Send(p) ==
  /\ bot = "part_004"
  /\ h[p].pc = "send"
  /\ h' = [h EXCEPT ![p] = P4Done]
  /\ hist' = IF h[p].kind = "result"
                  THEN [hist EXCEPT ![h[p].u].served = @ + 1]
                  ELSE hist
  /\ UNCHANGED <<now, bot, cfg, users, quota, cache, checks, n>>

\* half a day passes between two updates; a new day starts a new tally
Tick ==
  /\ now < 12 * MaxTicks
  /\ AllIdle
  /\ now' = now + 12
  /\ hist' = IF (now + 12) \div 24 # now \div 24 THEN [u \in Users |-> NoHist] ELSE hist
  /\ UNCHANGED <<bot, cfg, users, quota, cache, checks, h, n>>

P4Step(p) ==
  \/ P4EnsureUser(p)
  \/ P4Gate(p)
  \/ P4Cache(p)
  \/ P4SaveCache(p)
  \/ P4IncRead(p)
  \/ P4IncWrite(p)
  \/ P4Log(p)
  \/ P4Send(p)

\* updates of any user handled one at a time, within one day
NextP4Seq ==
  \/ \E u \in Users, t \in Texts : AllIdle /\ P4Receive(1, u, t)
  \/ P4Step(1)

\* updates of one user handled one at a time, over several days
NextP4Day ==
  \/ \E t \in {Txt10, Txt12, Txt5} : AllIdle /\ P4Receive(1, "u1", t)
  \/ P4Step(1)
  \/ Tick

\* overlapping deliveries of one user
NextP4 ==
  \/ \E p \in Procs, t \in {Txt10, Txt5} : P4Receive(p, "u1", t)
  \/ \E p \in Procs : P4Step(p)

SpecP4Seq == InitP4 /\ [][NextP4Seq]_vars

SpecP4Day == InitP4 /\ [][NextP4Day]_vars

SpecP4 == InitP4 /\ [][NextP4]_vars

(***************************************************************************)
(* part_004: failing calls.  A storage call (sbFetch) throws on a non-2xx  *)
(* answer, a timeout or a network error; tgCall throws once withRetries    *)
(* has used up its attempts; nothing between handleUpdate and the catch of *)
(* the HTTP server catches either.                                         *)
(***************************************************************************)
RETRIES == 1

\* POST /webhook with a body JSON.parse rejects: the catch of the server answers
P4Malformed(p) ==
  /\ bot = "part_004"
  /\ h[p].pc = "idle"
  /\ n < MaxUpdates
  /\ n' = n + 1
  /\ h' = [h EXCEPT ![p] = P4Failed]
  /\ UNCHANGED <<now, bot, cfg, users, quota, cache, checks, hist>>

\* the awaits of handleInn that are not wrapped in a try or a .catch
P4Awaits(me) ==
  \/ me.pc = "gate" /\ cfg.HAS_SB /\ ~isProUser(me.row)
  \/ me.pc = "cache"
  \/ me.pc = "saveCache" /\ cfg.HAS_SB
  \/ me.pc \in {"incRead", "incWrite"}
  \/ me.pc = "log" /\ cfg.HAS_SB

\* the storage call (or the limit / progress sendMessage) of the current step
\* throws: the error leaves handleInn and handleUpdate, the server answers 500
P4Throw(p) ==
  /\ bot = "part_004"
  /\ P4Awaits(h[p])
  /\ h' = [h EXCEPT ![p] = P4Failed]
  /\ UNCHANGED <<now, bot, cfg, users, quota, cache, checks, hist, n>>

\* tgCall of the last sendMessage: attempt number posts of withRetries fails
\* (Telegram answered ok: false, or the request timed out); the same payload
\* is posted again while attempts are left, then the error is thrown
P4SendFail(p) ==
  /\ bot = "part_004"
  /\ h[p].pc = "send"
  /\ h[p].posts <= RETRIES
  /\ h' = [h EXCEPT ![p] =
        IF h[p].posts < RETRIES
          THEN [h[p] EXCEPT !.posts = @ + 1]
          ELSE [P4Failed EXCEPT !.posts = h[p].posts + 1]]
  /\ UNCHANGED <<now, bot, cfg, users, quota, cache, checks, hist, n>>

\* updates of one user handled one at a time, any call may fail
NextP4Err ==
  \/ \E t \in {Txt10, Txt5, TxtStart} : AllIdle /\ P4Receive(1, "u1", t)
  \/ AllIdle /\ P4Malformed(1)
  \/ P4Step(1)
  \/ P4Throw(1)
  \/ P4SendFail(1)

SpecP4Err == InitP4 /\ [][NextP4Err]_vars

(***************************************************************************)
(* part_004: one update, delivered again after a response other than 200.  *)
(* The update is a message of u1 with a valid tax id; every delivery in    *)
(* this specification is a delivery of that update.                        *)
(***************************************************************************)
\* the first delivery of the update
P4Deliver(p) ==
  /\ n = 0
  /\ P4Receive(p, "u1", Txt10)

\* the platform got a 500 for the update and posts it again: handleUpdate
\* starts as for any update, the body carries the same update_id, which
\* nothing in the handler reads
P4Redeliver(p) ==
  /\ h[p].resp = 500
  /\ P4Receive(p, "u1", Txt10)

NextP4Again ==
  \/ P4Deliver(1)
  \/ P4Redeliver(1)
  \/ P4Step(1)
  \/ P4Throw(1)
  \/ P4SendFail(1)

SpecP4Again == InitP4 /\ [][NextP4Again]_vars

(***************************************************************************)
(* part_004: the provider requests attempt by attempt.  An attempt either  *)
(* throws (abort after TIMEOUT_MS, network error) or brings a response.    *)
(***************************************************************************)
\* what the requests of one provider call can meet: every attempt but the
\* last one made throws, and withRetries allows RETRIES + 1 attempts
Attempts(final) ==
  {fn \in UNION {[1..k -> final \cup {"timeout"}] : k \in 1..(RETRIES + 1)} :
     /\ \A i \in 1..(Len(fn) - 1) : fn[i] = "timeout"
     /\ fn[Len(fn)] = "timeout" => Len(fn) = RETRIES + 1}

\* withRetries from attempt i on: the first response is returned, the last
\* error is thrown when attempt number RETRIES has thrown as well
RECURSIVE withRetries(_, _)
withRetries(fn, i) ==
  IF fn[i + 1] # "timeout" THEN [out |-> fn[i + 1], calls |-> i + 1]
  ELSE IF i < RETRIES THEN withRetries(fn, i + 1)
  ELSE [out |-> "thrown", calls |-> i + 1]

\* a faulty provider function that asks the provider without looking at the key
requestWithoutKey(key, fn) ==
  LET r == withRetries(fn, 0)
  IN [kind |-> IF r.out = "non2xx" THEN "error" ELSE r.out, calls |-> r.calls]

\* dadataByInn / checkoByInn: the demo result without a key; else the response
\* of withRetries as { ok: true } ("ok", or "empty" for DaData without
\* suggestions) or { ok: false, error: "HTTP ..." } ("error"); "thrown" when
\* withRetries throws
providerByInn(key, fn) ==
  IF ~key THEN [kind |-> "demo", calls |-> 0]
  ELSE LET r == withRetries(fn, 0)
       IN [kind |-> IF r.out = "non2xx" THEN "error" ELSE r.out, calls |-> r.calls]

\* a faulty handleInn without the .catch on the provider promises
withoutCatch(kind) == kind

\* handleInn: .catch((e) => ({ provider, ok: false, error: e.message }))
catchProvider(kind) == IF kind = "thrown" THEN "timeout" ELSE kind

\* a faulty Promise.all that orders its results by arrival
allByArrival(first, dOut, cOut) ==
  IF first = "checko" THEN [dadata |-> cOut, checko |-> dOut]
  ELSE [dadata |-> dOut, checko |-> cOut]

\* const [dadata, checko] = await Promise.all([...]): results in array order
promiseAll(first, dOut, cOut) == [dadata |-> dOut, checko |-> cOut]

\* formatResult: where the organisation lines come from, and the DaData and
\* Checko notes
formatResult(res) ==
  [org |-> IF res.dadata = "ok" THEN "dadata" ELSE "none",
   dadata |-> IF res.dadata = "ok" THEN "fields"
              ELSE IF res.dadata = "demo" THEN "demo"
              ELSE IF res.dadata = "empty" THEN "none"
              ELSE "error",
   checko |-> IF res.checko = "ok" THEN "ok"
              ELSE IF res.checko = "demo" THEN "demo"
              ELSE "error"]

\* handleInn: the cache has a fresh row
P4CacheHit(p) ==
  /\ cfg.HAS_SB
  /\ getCachedInn(cache, h[p].txt) # NoRes
  /\ P4Cache(p)

\* handleInn: no fresh row; the progress message is sent and both provider
\* calls are started
P4Lookup(p) ==
  /\ bot = "part_004"
  /\ h[p].pc = "cache"
  /\ ~cfg.HAS_SB \/ getCachedInn(cache, h[p].txt) = NoRes
  /\ h' = [h EXCEPT ![p].pc = "providers",
                    ![p].age = IF cfg.HAS_SB THEN RowAge(cache, h[p].txt) ELSE -1]
  /\ UNCHANGED <<now, bot, cfg, users, quota, cache, checks, hist, n>>

\* the promise of dadataByInn settles, fn being what the network does to its
\* attempts; a rejection would reject Promise.all and leave handleInn
P4Dadata(p) ==
  /\ bot = "part_004"
  /\ h[p].pc = "providers"
  /\ h[p].dOut = "-"
  /\ \E fn \in Attempts({"ok", "empty", "non2xx"}) :
       LET r == providerByInn(cfg.DADATA_TOKEN, fn)
           out == catchProvider(r.kind)
       IN h' = [h EXCEPT ![p] =
            IF out = "thrown" THEN P4Failed
            ELSE [h[p] EXCEPT !.dOut = out, !.dreq = r.calls,
                             !.dnet = SubSeq(fn, 1, r.calls),
                             !.first = IF h[p].cOut = "-" THEN "dadata" ELSE @]]
  /\ UNCHANGED <<now, bot, cfg, users, quota, cache, checks, hist, n>>

\* the promise of checkoByInn settles
P4Checko(p) ==
  /\ bot = "part_004"
  /\ h[p].pc = "providers"
  /\ h[p].cOut = "-"
  /\ \E fn \in Attempts({"ok", "non2xx"}) :
       LET r == providerByInn(cfg.CHECKO_API_KEY, fn)
           out == catchProvider(r.kind)
       IN h' = [h EXCEPT ![p] =
            IF out = "thrown" THEN P4Failed
            ELSE [h[p] EXCEPT !.cOut = out, !.creq = r.calls,
                             !.cnet = SubSeq(fn, 1, r.calls),
                             !.first = IF h[p].dOut = "-" THEN "checko" ELSE @]]
  /\ UNCHANGED <<now, bot, cfg, users, quota, cache, checks, hist, n>>

\* Promise.all resolves once both promises have settled
P4Combine(p) ==
  /\ bot = "part_004"
  /\ h[p].pc = "providers"
  /\ h[p].dOut # "-" /\ h[p].cOut # "-"
  /\ h' = [h EXCEPT ![p].res = promiseAll(h[p].first, h[p].dOut, h[p].cOut),
                    ![p].pc = "saveCache"]
  /\ UNCHANGED <<now, bot, cfg, users, quota, cache, checks, hist, n>>

\* updates of one user handled one at a time, the provider requests attempt by attempt
NextP4Net ==
  \/ \E t \in {Txt10, Txt5} : AllIdle /\ P4Receive(1, "u1", t)
  \/ P4EnsureUser(1)
  \/ P4Gate(1)
  \/ P4CacheHit(1)
  \/ P4Lookup(1)
  \/ P4Dadata(1)
  \/ P4Checko(1)
  \/ P4Combine(1)
  \/ P4SaveCache(1)
  \/ P4IncRead(1)
  \/ P4IncWrite(1)
  \/ P4Log(1)
  \/ P4Send(1)

SpecP4Net == InitP4 /\ [][NextP4Net]_vars


(***************************************************************************)
(* index.js, first iteration: configuration and helpers                    *)
(***************************************************************************)
\* sb and CHECKO_API_KEY present or not; the subscriptions table is only read
IdxConfigs ==
  {c \in [HAS_SB : BOOLEAN, CHECKO_API_KEY : BOOLEAN,
          subscriptions : {NoTable, [u \in {"u1"} |-> 24]}] :
     c.HAS_SB \/ c.subscriptions = NoTable}

idx_todayKey == now \div 24

idx_isInn(text) == LET t == trim(text) IN AllDigits(t, 10) \/ AllDigits(t, 12)

\* the upsert carries the profile fields only: an existing row keeps its plan
idx_ensureUser(tbl, u) == IF Has(tbl, u) THEN tbl ELSE sbUpsert(tbl, u, FreeRow)

idx_isProUser(subs, u) == Has(subs, u) /\ subs[u] > now

\* checkAndConsumeFreeQuota, the upsert: used: 0 is merged over the day's row
idx_quotaUpsert(tbl, u) == sbUpsert(tbl, <<u, idx_todayKey>>, 0)

\* checkAndConsumeFreeQuota, the update of the day's row
idx_quotaUpdate(tbl, u, used) ==
  IF Has(tbl, <<u, idx_todayKey>>) THEN sbUpsert(tbl, <<u, idx_todayKey>>, used + 1) ELSE tbl

idx_left(used) == IF FREE_DAILY_LIMIT - used > 0 THEN FREE_DAILY_LIMIT - used ELSE 0

\* what fetchCheckoCompany leaves in resp.raw: the payload, an error body, or nothing
idx_fetchCheckoCompany(conf) ==
  IF ~conf.CHECKO_API_KEY THEN {"null"} ELSE {"ok", "error", "null"}

\* cacheGet, as handleInn uses it: a row counts when its raw is not null
idx_cacheGet(tbl, inn) ==
  IF Has(tbl, inn) /\ tbl[inn].result # "null" THEN tbl[inn].result ELSE "null"

idx_cacheSet(tbl, inn, raw) == sbUpsert(tbl, inn, [result |-> raw, updated_at |-> now])

NoQ == [allowed |-> FALSE, left |-> -1]

IdxIdle ==
  [pc |-> "idle", u |-> "-", txt |-> <<>>, resp |-> 0, pro |-> FALSE, used |-> 0,
   k |-> 0, q |-> NoQ, res |-> "null", hit |-> FALSE, age |-> -1, kind |-> "-",
   err |-> "-", log |-> 0]

\* the catch of the webhook handler: console.error and nothing else
IdxCaught(me) == [IdxIdle EXCEPT !.txt = me.txt, !.err = "silent"]

\* a faulty handler that leaves the acknowledgement for later
ackAfterHandling(me) == me

\* res.status(200).json({ ok: true }), the first statement of the handler
idx_ack(me) == [me EXCEPT !.resp = 200]

InitIdx ==
  /\ now = 0
  /\ bot = "index.js"
  /\ cfg \in IdxConfigs
  /\ users = NoTable
  /\ quota = NoTable
  /\ cache = NoTable
  /\ checks = NoTable
  /\ h = [p \in Procs |-> IdxIdle]
  /\ hist = [u \in Users |-> NoHist]
  /\ n = 0

(***************************************************************************)
(* index.js, first iteration: the webhook handler                          *)
(***************************************************************************)
\* POST /webhook: acknowledge, then dispatch on the trimmed text
IdxWebhook(p, u, t) ==
  /\ bot = "index.js"
  /\ h[p].pc = "idle"
  /\ n < MaxUpdates
  /\ n' = n + 1
  /\ LET text == trim(t)
         me == idx_ack([IdxIdle EXCEPT !.u = u, !.txt = text])
     IN h' = [h EXCEPT ![p] =
               IF text = TxtStart THEN [me EXCEPT !.pc = "send", !.kind = "start"]
               ELSE IF idx_isInn(text) THEN [me EXCEPT !.pc = "ensureUser"]
               ELSE [me EXCEPT !.pc = "send", !.kind = "hint"]]
  /\ UNCHANGED <<now, bot, cfg, users, quota, cache, checks, hist>>

\* handleInn: ensureUser and isProUser; a storage error ends the handler in the catch
IdxEnsureUser(p) ==
  /\ bot = "index.js"
  /\ h[p].pc = "ensureUser"
  /\ \E stored \in (IF cfg.HAS_SB THEN BOOLEAN ELSE {TRUE}) :
       LET me == h[p]
           pro == cfg.HAS_SB /\ idx_isProUser(cfg.subscriptions, me.u)
       IN IF stored
            THEN /\ users' = IF cfg.HAS_SB THEN idx_ensureUser(users, me.u) ELSE users
                 /\ h' = [h EXCEPT ![p] =
                       [me EXCEPT !.pro = pro,
                                 !.pc = IF pro THEN "cache" ELSE "quotaUpsert"]]
            ELSE /\ users' = users
                 /\ h' = [h EXCEPT ![p] = IdxCaught(me)]
  /\ UNCHANGED <<now, bot, cfg, quota, cache, checks, hist, n>>

\* checkAndConsumeFreeQuota up to its decision
IdxQuotaUpsert(p) ==
  /\ bot = "index.js"
  /\ h[p].pc = "quotaUpsert"
  /\ LET me == h[p]
         tbl == IF cfg.HAS_SB THEN idx_quotaUpsert(quota, me.u) ELSE quota
         used == IF cfg.HAS_SB THEN tbl[<<me.u, idx_todayKey>>] ELSE 0
         k == hist[me.u].calls + 1
     IN /\ quota' = tbl
        /\ hist' = [hist EXCEPT ![me.u].calls = k]
        /\ h' = [h EXCEPT ![p] =
             IF ~cfg.HAS_SB
               THEN [me EXCEPT !.k = k, !.q = [allowed |-> TRUE, left |-> -1], !.pc = "cache"]
             ELSE IF idx_left(used) <= 0
               THEN [me EXCEPT !.k = k, !.q = [allowed |-> FALSE, left |-> 0],
                              !.pc = "send", !.kind = "limit"]
             ELSE [me EXCEPT !.k = k, !.used = used, !.pc = "quotaUpdate"]]
  /\ UNCHANGED <<now, bot, cfg, users, cache, checks, n>>

\* checkAndConsumeFreeQuota: "consume one" and the result
IdxQuotaUpdate(p) ==
  /\ bot = "index.js"
  /\ h[p].pc = "quotaUpdate"
  /\ LET me == h[p]
     IN /\ quota' = idx_quotaUpdate(quota, me.u, me.used)
        /\ h' = [h EXCEPT ![p] =
             [me EXCEPT !.q = [allowed |-> TRUE, left |-> idx_left(me.used) - 1],
                       !.pc = "cache"]]
  /\ UNCHANGED <<now, bot, cfg, users, cache, checks, hist, n>>

\* handleInn: the progress message, cacheGet, and on a miss fetchCheckoCompany
IdxCache(p) ==
  /\ bot = "index.js"
  /\ h[p].pc = "cache"
  /\ LET me == h[p]
         cached == IF cfg.HAS_SB THEN idx_cacheGet(cache, me.txt) ELSE "null"
         age == IF cfg.HAS_SB THEN RowAge(cache, me.txt) ELSE -1
     IN IF cached # "null"
          THEN h' = [h EXCEPT ![p] =
                  [me EXCEPT !.res = cached, !.hit = TRUE, !.age = age, !.pc = "log"]]
          ELSE \E raw \in idx_fetchCheckoCompany(cfg) :
                 h' = [h EXCEPT ![p] =
                    [me EXCEPT !.res = raw, !.age = age, !.pc = "cacheSet"]]
  /\ UNCHANGED <<now, bot, cfg, users, quota, cache, checks, hist, n>>

\* handleInn: cacheSet of what the provider returned
IdxCacheSet(p) ==
  /\ bot = "index.js"
  /\ h[p].pc = "cacheSet"
  /\ cache' = IF cfg.HAS_SB THEN idx_cacheSet(cache, h[p].txt, h[p].res) ELSE cache
  /\ h' = [h EXCEPT ![p].pc = "log"]
  /\ UNCHANGED <<now, bot, cfg, users, quota, checks, hist, n>>

\* handleInn: saveCheckLog, the PDF upload and the pdf_url of the log row
IdxLog(p) ==
  /\ bot = "index.js"
  /\ h[p].pc = "log"
  /\ checks' = IF cfg.HAS_SB THEN saveCheckLog(checks, h[p].u) ELSE checks
  /\ h' = [h EXCEPT ![p].pc = "send", ![p].kind = "result"]
  /\ UNCHANGED <<now, bot, cfg, users, quota, cache, hist, n>>

\* the last sendMessage of the update: greeting, hint, limit message or result
IdxSend(p) ==
  /\ bot = "index.js"
  /\ h[p].pc = "send"
  /\ h' = [h EXCEPT ![p] = IdxIdle]
  /\ hist' = IF h[p].kind = "result" THEN [hist EXCEPT ![h[p].u].served = @ + 1]
             ELSE IF h[p].kind = "limit" THEN [hist EXCEPT ![h[p].u].rejected = @ + 1]
             ELSE hist
  /\ UNCHANGED <<now, bot, cfg, users, quota, cache, checks, n>>

IdxStep(p) ==
  \/ IdxEnsureUser(p)
  \/ IdxQuotaUpsert(p)
  \/ IdxQuotaUpdate(p)
  \/ IdxCache(p)
  \/ IdxCacheSet(p)
  \/ IdxLog(p)
  \/ IdxSend(p)

\* updates of one user handled one at a time, over several days
NextIdx ==
  \/ \E t \in {Txt10, Txt12, Txt5, TxtStart} : AllIdle /\ IdxWebhook(1, "u1", t)
  \/ IdxStep(1)
  \/ Tick

SpecIdx == InitIdx /\ [][NextIdx]_vars


(***************************************************************************)
(* index.js, first iteration: inn_checks row by row.  Here checks is the   *)
(* sequence of the rows, the id of a row being its position.               *)
(***************************************************************************)
\* saveCheckLog: insert of a row without a pdf_url
saveCheckLogRow(log, u, inn) ==
  log \o <<[tg_user_id |-> u, inn |-> inn, pdf_url |-> "null"]>>

\* handleInn after the upload: update of pdf_url where id = log.id
idx_setPdfUrl(log, id) ==
  [i \in DOMAIN log |-> IF i = id THEN [log[i] EXCEPT !.pdf_url = "url"] ELSE log[i]]

\* handleInn: "Save check log first to get id"
IdxLogRow(p) ==
  /\ bot = "index.js"
  /\ h[p].pc = "log"
  /\ IF cfg.HAS_SB
       THEN /\ checks' = saveCheckLogRow(checks, h[p].u, h[p].txt)
            /\ h' = [h EXCEPT ![p].log = Len(checks) + 1, ![p].pc = "upload"]
       ELSE /\ checks' = checks
            /\ h' = [h EXCEPT ![p].pc = "send", ![p].kind = "result"]
  /\ UNCHANGED <<now, bot, cfg, users, quota, cache, hist, n>>

\* handleInn: uploadPdfToSupabase, and after a successful upload the pdf_url
\* of the row just inserted
IdxUpload(p) ==
  /\ bot = "index.js"
  /\ h[p].pc = "upload"
  /\ \E uploaded \in BOOLEAN :
       checks' = IF uploaded THEN idx_setPdfUrl(checks, h[p].log) ELSE checks
  /\ h' = [h EXCEPT ![p].pc = "send", ![p].kind = "result"]
  /\ UNCHANGED <<now, bot, cfg, users, quota, cache, hist, n>>

\* updates of one user handled one at a time, within one day
NextIdxRows ==
  \/ \E t \in {Txt10, Txt12, Txt5} : AllIdle /\ IdxWebhook(1, "u1", t)
  \/ IdxEnsureUser(1)
  \/ IdxQuotaUpsert(1)
  \/ IdxQuotaUpdate(1)
  \/ IdxCache(1)
  \/ IdxCacheSet(1)
  \/ IdxLogRow(1)
  \/ IdxUpload(1)
  \/ IdxSend(1)

SpecIdxRows == InitIdx /\ [][NextIdxRows]_vars

(***************************************************************************)
(* index.js, subscriptions iteration: one free check, then a paid period.  *)
(* users is the table subscriptions: telegram_user_id -> row.              *)
(***************************************************************************)
\* the row an upsert of a new telegram_user_id creates: the column defaults
SubNewRow == [has_until |-> FALSE, paid_until |-> 0, free_checks_used |-> 0]

\* upsertUser: the upsert carries telegram_user_id only, an existing row is kept
sub_upsertUser(tbl, u) == IF Has(tbl, u) THEN tbl ELSE sbUpsert(tbl, u, SubNewRow)

sub_isPaidActive(row) == IF ~row.has_until THEN FALSE ELSE row.paid_until > now

\* canUseCheck, on the row upsertUser returned
sub_canUseCheck(row) ==
  IF sub_isPaidActive(row) THEN "paid"
  ELSE IF row.free_checks_used < 1 THEN "free"
  ELSE "limit"

\* markFreeCheckUsed, the fallback after its first update was refused:
\* update of free_checks_used to the value read + 1
sub_markUpdate(tbl, u, read) ==
  IF Has(tbl, u) THEN [tbl EXCEPT ![u].free_checks_used = read + 1] ELSE tbl

SubIdle == [pc |-> "idle", u |-> "-", txt |-> <<>>, reason |-> "-", read |-> 0, kind |-> "-"]

\* subscriptions holds no row, or a row with a paid period that is over or
\* still running
InitSub ==
  /\ now = 24
  /\ bot = "index.js/subscriptions"
  /\ cfg = [HAS_SB |-> TRUE]
  /\ users \in {NoTable} \cup
       {[u \in {"u1"} |-> [SubNewRow EXCEPT !.has_until = TRUE, !.paid_until = t]] :
          t \in {0, 48}}
  /\ quota = NoTable
  /\ cache = NoTable
  /\ checks = NoTable
  /\ h = [p \in Procs |-> SubIdle]
  /\ hist = [u \in Users |-> NoHist]
  /\ n = 0

\* POST /webhook with a message: res 200 at once, then the dispatch on the text
SubWebhook(p, u, t) ==
  /\ bot = "index.js/subscriptions"
  /\ h[p].pc = "idle"
  /\ n < MaxUpdates
  /\ n' = n + 1
  /\ LET text == trim(t)
         me == [SubIdle EXCEPT !.u = u, !.txt = text]
     IN h' = [h EXCEPT ![p] =
          IF text = TxtStart THEN [me EXCEPT !.pc = "start"]
          ELSE IF text = <<>> THEN [me EXCEPT !.pc = "send", !.kind = "empty"]
          ELSE IF isInn(text) THEN [me EXCEPT !.pc = "canUseCheck"]
          ELSE [me EXCEPT !.pc = "send", !.kind = "hint"]]
  /\ UNCHANGED <<now, bot, cfg, users, quota, cache, checks, hist>>

\* /start: upsertUser, then the greeting
SubStart(p) ==
  /\ bot = "index.js/subscriptions"
  /\ h[p].pc = "start"
  /\ users' = sub_upsertUser(users, h[p].u)
  /\ h' = [h EXCEPT ![p].pc = "send", ![p].kind = "start"]
  /\ UNCHANGED <<now, bot, cfg, quota, cache, checks, hist, n>>

\* canUseCheck: upsertUser and the decision on its row
SubCanUseCheck(p) ==
  /\ bot = "index.js/subscriptions"
  /\ h[p].pc = "canUseCheck"
  /\ LET me == h[p]
         tbl == sub_upsertUser(users, me.u)
         reason == sub_canUseCheck(tbl[me.u])
     IN /\ users' = tbl
        /\ h' = [h EXCEPT ![p] =
             IF reason = "limit" THEN [me EXCEPT !.reason = reason, !.pc = "send", !.kind = "limit"]
             ELSE IF reason = "free" THEN [me EXCEPT !.reason = reason, !.pc = "mark"]
             ELSE [me EXCEPT !.reason = reason, !.pc = "send", !.kind = "result"]]
  /\ UNCHANGED <<now, bot, cfg, quota, cache, checks, hist, n>>

\* markFreeCheckUsed: the update whose only column is undefined, so that its
\* body is {}; the service accepts it and changes nothing, or refuses it
SubMark(p) ==
  /\ bot = "index.js/subscriptions"
  /\ h[p].pc = "mark"
  /\ \E error \in BOOLEAN :
       h' = [h EXCEPT ![p] =
          IF error THEN [h[p] EXCEPT !.pc = "markRead"]
          ELSE [h[p] EXCEPT !.pc = "send", !.kind = "result"]]
  /\ UNCHANGED <<now, bot, cfg, users, quota, cache, checks, hist, n>>

\* markFreeCheckUsed, fallback: select free_checks_used
SubMarkRead(p) ==
  /\ bot = "index.js/subscriptions"
  /\ h[p].pc = "markRead"
  /\ h' = [h EXCEPT ![p].read = IF Has(users, h[p].u) THEN users[h[p].u].free_checks_used ELSE 0,
                    ![p].pc = "markUpdate"]
  /\ UNCHANGED <<now, bot, cfg, users, quota, cache, checks, hist, n>>

\* markFreeCheckUsed, fallback: the update
SubMarkUpdate(p) ==
  /\ bot = "index.js/subscriptions"
  /\ h[p].pc = "markUpdate"
  /\ users' = sub_markUpdate(users, h[p].u, h[p].read)
  /\ h' = [h EXCEPT ![p].pc = "send", ![p].kind = "result"]
  /\ UNCHANGED <<now, bot, cfg, quota, cache, checks, hist, n>>

\* the tgSendMessage of the update: greeting, hint, limit message or result
SubSend(p) ==
  /\ bot = "index.js/subscriptions"
  /\ h[p].pc = "send"
  /\ h' = [h EXCEPT ![p] = SubIdle]
  /\ hist' = IF h[p].kind = "result" THEN [hist EXCEPT ![h[p].u].served = @ + 1]
             ELSE IF h[p].kind = "limit" THEN [hist EXCEPT ![h[p].u].rejected = @ + 1]
             ELSE hist
  /\ UNCHANGED <<now, bot, cfg, users, quota, cache, checks, n>>

SubStep(p) ==
  \/ SubStart(p)
  \/ SubCanUseCheck(p)
  \/ SubMark(p)
  \/ SubMarkRead(p)
  \/ SubMarkUpdate(p)
  \/ SubSend(p)

\* messages of one user handled one at a time
NextSub ==
  \/ \E t \in {Txt10, Txt12, Txt10Pad, Txt5, TxtStart, <<>>} : AllIdle /\ SubWebhook(1, "u1", t)
  \/ SubStep(1)

SpecSub == InitSub /\ [][NextSub]_vars

(***************************************************************************)
(* part_005: configuration and helpers                                     *)
(***************************************************************************)
P5Configs ==
  {[HAS_SB |-> TRUE, CHECKO_API_KEY |-> TRUE],
   [HAS_SB |-> TRUE, CHECKO_API_KEY |-> FALSE],
   [HAS_SB |-> FALSE, CHECKO_API_KEY |-> TRUE]}

ADMIN_IDS == {"u2"}

TxtGrant == <<"/", "g", "r", "a", "n", "t">>

StartsWith(s, pre) == Len(s) >= Len(pre) /\ SubSeq(s, 1, Len(pre)) = pre

p5_isInn(text) == LET t == trim(text) IN AllDigits(t, 10) \/ AllDigits(t, 12)

p5_todayIsoDate == now \div 24

\* the upsert payload carries plan "free" and pro_until null; the selected row
\* is the row after the merge
p5_ensureUser(tbl, u) == sbUpsert(tbl, u, FreeRow)

p5_isPro(user) ==
  IF user.plan # "pro" THEN FALSE
  ELSE IF ~user.has_until THEN TRUE
  ELSE user.pro_until > now

p5_getDailyUsed(tbl, u) ==
  IF Has(tbl, <<u, p5_todayIsoDate>>) THEN tbl[<<u, p5_todayIsoDate>>] ELSE 0

\* incDailyUsed after its getDailyUsed: upsert of used = value read + 1
p5_incDailyUsed(tbl, u, used) == sbUpsert(tbl, <<u, p5_todayIsoDate>>, used + 1)

\* handleAdminGrant: update of the target's row, if there is one
p5_grant(tbl, target, days) ==
  IF Has(tbl, target)
    THEN sbUpsert(tbl, target,
           [plan |-> "pro", has_until |-> TRUE, pro_until |-> now + days * 24])
    ELSE tbl

p5_fetchCheckoByInn(conf) == IF ~conf.CHECKO_API_KEY THEN {"warning"} ELSE {"ok", "error"}

\* insertReport: one more row of the user
p5_insertReport(tbl, u) == sbUpsert(tbl, u, IF Has(tbl, u) THEN tbl[u] + 1 ELSE 1)

\* observation: the stored row of u makes u a PRO user right now
StoredPro(tbl, u) ==
  /\ Has(tbl, u)
  /\ tbl[u].plan = "pro"
  /\ (~tbl[u].has_until \/ tbl[u].pro_until > now)

P5Idle ==
  [pc |-> "idle", u |-> "-", txt |-> <<>>, resp |-> 0, target |-> "-", days |-> 0,
   proAtArrival |-> FALSE, pro |-> FALSE, used |-> 0, res |-> "-", kind |-> "-",
   err |-> "-", hdr |-> "-"]

\* the catch of the webhook handler: console.error and nothing else
P5Caught(me) == [P5Idle EXCEPT !.txt = me.txt, !.err = "silent"]

\* res.status(200).json({ ok: true }), the first statement of the handler
p5_ack(me) == [me EXCEPT !.resp = 200]

InitP5 ==
  /\ now = 0
  /\ bot = "part_005"
  /\ cfg \in P5Configs
  /\ users = NoTable
  /\ quota = NoTable
  /\ cache = NoTable
  /\ checks = NoTable
  /\ h = [p \in Procs |-> P5Idle]
  /\ hist = [u \in Users |-> NoHist]
  /\ n = 0

(***************************************************************************)
(* part_005: the webhook handler                                           *)
(***************************************************************************)
\* POST /webhook with a message of user u: acknowledge, then trim the text
P5Webhook(p, u, t) ==
  /\ bot = "part_005"
  /\ h[p].pc = "idle"
  /\ n < MaxUpdates
  /\ n' = n + 1
  /\ h' = [h EXCEPT ![p] =
        p5_ack([P5Idle EXCEPT !.pc = "ensureUser", !.u = u, !.txt = trim(t),
                             !.proAtArrival = StoredPro(users, u)])]
  /\ UNCHANGED <<now, bot, cfg, users, quota, cache, checks, hist>>

\* POST /webhook with "/grant <target> <days>" sent by an administrator
P5WebhookGrant(p, u, target, days) ==
  /\ bot = "part_005"
  /\ h[p].pc = "idle"
  /\ u \in ADMIN_IDS
  /\ h' = [h EXCEPT ![p] =
        p5_ack([P5Idle EXCEPT !.pc = "grant", !.u = u, !.txt = TxtGrant,
                             !.target = target, !.days = days])]
  /\ UNCHANGED <<now, bot, cfg, users, quota, cache, checks, hist, n>>

\* handleAdminGrant: the update of bot_users, then the confirmation is due
P5Grant(p) ==
  /\ bot = "part_005"
  /\ h[p].pc = "grant"
  /\ StartsWith(h[p].txt, TxtGrant)
  /\ users' = IF cfg.HAS_SB THEN p5_grant(users, h[p].target, h[p].days) ELSE users
  /\ h' = [h EXCEPT ![p].pc = "send", ![p].kind = "grant"]
  /\ UNCHANGED <<now, bot, cfg, quota, cache, checks, hist, n>>

\* ensureUser and isPro, then the dispatch on the text; a storage error is
\* thrown into the catch of the handler
P5EnsureUser(p) ==
  /\ bot = "part_005"
  /\ h[p].pc = "ensureUser"
  /\ \E stored \in (IF cfg.HAS_SB THEN BOOLEAN ELSE {TRUE}) :
       LET me == h[p]
           tbl == IF cfg.HAS_SB THEN p5_ensureUser(users, me.u) ELSE users
           user == IF cfg.HAS_SB THEN tbl[me.u] ELSE FreeRow
           next == [me EXCEPT !.pro = p5_isPro(user)]
       IN IF ~stored
            THEN /\ users' = users
                 /\ h' = [h EXCEPT ![p] = P5Caught(me)]
            ELSE /\ users' = tbl
                 /\ h' = [h EXCEPT ![p] =
                       IF me.txt = TxtStart THEN [next EXCEPT !.pc = "send", !.kind = "start"]
                       ELSE IF me.txt = <<>> THEN P5Idle
                       ELSE IF ~p5_isInn(me.txt) THEN [next EXCEPT !.pc = "send", !.kind = "hint"]
                       ELSE [next EXCEPT !.pc = "limits"]]
  /\ UNCHANGED <<now, bot, cfg, quota, cache, checks, hist, n>>

\* "limits": a free user's used count of today against FREE_DAILY_LIMIT
P5Limits(p) ==
  /\ bot = "part_005"
  /\ h[p].pc = "limits"
  /\ LET me == h[p]
     IN /\ h' = [h EXCEPT ![p] =
             IF ~me.pro /\ cfg.HAS_SB /\ p5_getDailyUsed(quota, me.u) >= FREE_DAILY_LIMIT
               THEN [me EXCEPT !.pc = "send", !.kind = "limit"]
               ELSE [me EXCEPT !.pc = "fetch"]]
        /\ hist' = [hist EXCEPT ![me.u].calls = @ + 1]
  /\ UNCHANGED <<now, bot, cfg, users, quota, cache, checks, n>>

\* the progress message, fetchCheckoByInn, and the message with its outcome
P5Fetch(p) ==
  /\ bot = "part_005"
  /\ h[p].pc = "fetch"
  /\ \E checko \in p5_fetchCheckoByInn(cfg) :
       LET me == h[p]
       IN IF checko = "ok"
            THEN /\ h' = [h EXCEPT ![p] = [me EXCEPT !.res = checko, !.pc = "report"]]
                 /\ hist' = [hist EXCEPT ![me.u].served = @ + 1]
            ELSE /\ h' = [h EXCEPT ![p] =
                       IF cfg.HAS_SB /\ ~me.pro
                         THEN [me EXCEPT !.res = checko, !.pc = "incRead"]
                         ELSE P5Idle]
                 /\ hist' = hist
  /\ UNCHANGED <<now, bot, cfg, users, quota, cache, checks, n>>

\* "save report": insertReport and saveLastReportId
P5Report(p) ==
  /\ bot = "part_005"
  /\ h[p].pc = "report"
  /\ checks' = IF cfg.HAS_SB THEN p5_insertReport(checks, h[p].u) ELSE checks
  /\ h' = [h EXCEPT ![p] =
        IF cfg.HAS_SB /\ ~h[p].pro THEN [h[p] EXCEPT !.pc = "incRead"] ELSE P5Idle]
  /\ UNCHANGED <<now, bot, cfg, users, quota, cache, hist, n>>

\* incDailyUsed, first half: getDailyUsed
P5IncRead(p) ==
  /\ bot = "part_005"
  /\ h[p].pc = "incRead"
  /\ h' = [h EXCEPT ![p].used = p5_getDailyUsed(quota, h[p].u), ![p].pc = "incWrite"]
  /\ UNCHANGED <<now, bot, cfg, users, quota, cache, checks, hist, n>>

\* incDailyUsed, second half: the upsert
P5IncWrite(p) ==
  /\ bot = "part_005"
  /\ h[p].pc = "incWrite"
  /\ quota' = p5_incDailyUsed(quota, h[p].u, h[p].used)
  /\ h' = [h EXCEPT ![p] = P5Idle]
  /\ UNCHANGED <<now, bot, cfg, users, cache, checks, hist, n>>

\* the only sendMessage of the update: greeting, hint, limit message or grant reply
P5Send(p) ==
  /\ bot = "part_005"
  /\ h[p].pc = "send"
  /\ h' = [h EXCEPT ![p] = P5Idle]
  /\ hist' = IF h[p].kind = "limit" THEN [hist EXCEPT ![h[p].u].rejected = @ + 1] ELSE hist
  /\ UNCHANGED <<now, bot, cfg, users, quota, cache, checks, n>>

P5Step(p) ==
  \/ P5Grant(p)
  \/ P5EnsureUser(p)
  \/ P5Limits(p)
  \/ P5Fetch(p)
  \/ P5Report(p)
  \/ P5IncRead(p)
  \/ P5IncWrite(p)
  \/ P5Send(p)

\* messages of one user and grants of the administrator, one at a time, over several days
NextP5 ==
  \/ \E t \in {Txt10, Txt5, TxtStart, <<>>} : AllIdle /\ P5Webhook(1, "u1", t)
  \/ \E days \in {1} : AllIdle /\ P5WebhookGrant(1, "u2", "u1", days)
  \/ P5Step(1)
  \/ Tick

SpecP5 == InitP5 /\ [][NextP5]_vars

\* overlapping deliveries of one user, and grants of the administrator
NextP5Conc ==
  \/ \E p \in Procs, t \in {Txt10, Txt5} : P5Webhook(p, "u1", t)
  \/ \E p \in Procs, days \in {1} : P5WebhookGrant(p, "u2", "u1", days)
  \/ \E p \in Procs : P5Step(p)

SpecP5Conc == InitP5 /\ [][NextP5Conc]_vars

(***************************************************************************)
(* part_005 and part_002: the secret token of the webhook.  hdr is the     *)
(* X-Telegram-Bot-Api-Secret-Token header of the request, "undefined"      *)
(* when the request has none; WEBHOOK_SECRET "" is a secret that is not    *)
(* set.                                                                    *)
(***************************************************************************)
Headers == {"undefined", "s1", "s2"}

\* a faulty check that lets every request through
secretIgnored(secret, header) == TRUE

\* if (WEBHOOK_SECRET) { if (secret !== WEBHOOK_SECRET) return; }
secretAccepted(secret, header) == secret = "" \/ header = secret

InitSecret ==
  /\ now = 0
  /\ bot \in {"part_005", "part_002"}
  /\ cfg \in [HAS_SB : {TRUE}, CHECKO_API_KEY : BOOLEAN, WEBHOOK_SECRET : {"", "s1"}]
  /\ users = NoTable
  /\ quota = NoTable
  /\ cache = NoTable
  /\ checks = NoTable
  /\ h = [p \in Procs |-> P5Idle]
  /\ hist = [u \in Users |-> NoHist]
  /\ n = 0

\* part_005, POST /webhook: the acknowledgement, then the check of the
\* header; a request that fails it is dropped, one that passes is handled
P5WebhookHeader(p, u, t, header) ==
  /\ bot = "part_005"
  /\ h[p].pc = "idle"
  /\ n < MaxUpdates
  /\ n' = n + 1
  /\ h' = [h EXCEPT ![p] =
        IF secretAccepted(cfg.WEBHOOK_SECRET, header)
          THEN p5_ack([P5Idle EXCEPT !.pc = "ensureUser", !.u = u, !.txt = trim(t),
                                    !.proAtArrival = StoredPro(users, u),
                                    !.hdr = header])
          ELSE p5_ack([P5Idle EXCEPT !.hdr = header])]
  /\ UNCHANGED <<now, bot, cfg, users, quota, cache, checks, hist>>

\* part_002, POST /webhook with a header that fails the check: 401 is the
\* whole of the handling
P2WebhookRefused(p, header) ==
  /\ bot = "part_002"
  /\ h[p].pc = "idle"
  /\ n < MaxUpdates
  /\ ~secretAccepted(cfg.WEBHOOK_SECRET, header)
  /\ n' = n + 1
  /\ h' = [h EXCEPT ![p] = [P5Idle EXCEPT !.hdr = header, !.resp = 401]]
  /\ UNCHANGED <<now, bot, cfg, users, quota, cache, checks, hist>>

NextSecret ==
  \/ \E t \in {Txt10, Txt5}, header \in Headers :
       AllIdle /\ P5WebhookHeader(1, "u1", t, header)
  \/ \E header \in Headers : AllIdle /\ P2WebhookRefused(1, header)
  \/ \E days \in {1} : AllIdle /\ P5WebhookGrant(1, "u2", "u1", days)
  \/ P5Step(1)

SpecSecret == InitSecret /\ [][NextSecret]_vars


(***************************************************************************)
(* part_000, Telegraf iteration: configuration and helpers                 *)
(***************************************************************************)
P0Configs == {[HAS_SB |-> TRUE, CHECKO_API_KEY |-> k] : k \in BOOLEAN}

DAILY_FREE_LIMIT == 3

\* the row ensureUser inserts
P0NewRow ==
  [plan |-> "free", has_until |-> FALSE, pro_until |-> 0,
   free_checks_left |-> DAILY_FREE_LIMIT]

\* rows as support leaves them when PRO is switched on by hand for one day
P0ProRows ==
  {[plan |-> pl, has_until |-> TRUE, pro_until |-> 24,
    free_checks_left |-> DAILY_FREE_LIMIT] : pl \in {"pro", "free"}}

p0_todayKey == now \div 24

\* normalizeInn: the trimmed text, or null (the empty text) when it is no tax id
p0_normalizeInn(text) ==
  LET inn == trim(text)
  IN IF ~AllDigits(inn, 10) /\ ~AllDigits(inn, 12) THEN <<>> ELSE inn

\* ensureUser: the existing row is returned as it is, else a row is inserted
p0_ensureUser(tbl, u) == IF Has(tbl, u) THEN tbl ELSE sbUpsert(tbl, u, P0NewRow)

p0_isPro(userRow) ==
  IF userRow.plan = "pro" THEN TRUE
  ELSE IF userRow.has_until THEN userRow.pro_until > now
  ELSE FALSE

p0_getDailyQuota(tbl, u) ==
  IF Has(tbl, <<u, p0_todayKey>>) THEN tbl[<<u, p0_todayKey>>] ELSE 0

\* canDoCheck, given the used count it reads when it gets that far
p0_canDoCheck(userRow, used) ==
  IF p0_isPro(userRow) THEN TRUE
  ELSE IF userRow.free_checks_left <= 0 THEN FALSE
  ELSE IF used >= DAILY_FREE_LIMIT THEN FALSE
  ELSE TRUE

\* consumeFree: the update of free_checks_left from the row read at the start
p0_consumeFree(tbl, u, userRow) ==
  IF Has(tbl, u)
    THEN [tbl EXCEPT ![u].free_checks_left =
            IF userRow.free_checks_left - 1 > 0 THEN userRow.free_checks_left - 1 ELSE 0]
    ELSE tbl

\* incDailyQuota after its read: insert used 1 when it read 0, else update used + 1
p0_incDailyQuota(tbl, u, used) ==
  IF used = 0
    THEN (IF Has(tbl, <<u, p0_todayKey>>) THEN tbl ELSE sbUpsert(tbl, <<u, p0_todayKey>>, 1))
    ELSE (IF Has(tbl, <<u, p0_todayKey>>) THEN sbUpsert(tbl, <<u, p0_todayKey>>, used + 1) ELSE tbl)

\* what fetch meets: a network failure, or a response with its status class
\* and its body: unparsable, a falsy JSON value, an object without an error
\* field, with a truthy error field, or with a falsy one (null, "", 0, false)
P0Bodies == {"unparsable", "falsy", "plain", "errTruthy", "errFalsy"}

NoAnswer == [kind |-> "-", ok |-> FALSE, body |-> "-"]

P0Answers ==
  {[kind |-> "network", ok |-> FALSE, body |-> "-"]}
    \cup {[kind |-> "response", ok |-> o, body |-> b] : o \in BOOLEAN, b \in P0Bodies}

\* a faulty fetchCheckoCompany without the try around fetch
fetchWithoutTry(key, net) ==
  IF ~key THEN [error |-> "no key", raw |-> "null"]
  ELSE IF net.kind = "network" THEN [error |-> "thrown", raw |-> "thrown"]
  ELSE LET raw == IF net.body \in {"unparsable", "falsy"} THEN "null" ELSE net.body
       IN IF ~net.ok THEN [error |-> "http", raw |-> raw]
          ELSE IF raw = "null" THEN [error |-> "unknown", raw |-> raw]
          ELSE IF raw = "errTruthy" THEN [error |-> "body", raw |-> raw]
          ELSE [error |-> "null", raw |-> raw]

\* fetchCheckoCompany: { provider, error, raw }; error "null" stands for null,
\* raw "null" for a body that is unparsable or parses to a falsy value
p0_fetchCheckoCompany(key, net) ==
  IF ~key THEN [error |-> "no key", raw |-> "null"]
  ELSE IF net.kind = "network" THEN [error |-> "network", raw |-> "null"]
  ELSE LET raw == IF net.body \in {"unparsable", "falsy"} THEN "null" ELSE net.body
       IN IF ~net.ok THEN [error |-> "http", raw |-> raw]
          ELSE IF raw = "null" THEN [error |-> "unknown", raw |-> raw]
          ELSE IF raw = "errTruthy" THEN [error |-> "body", raw |-> raw]
          ELSE [error |-> "null", raw |-> raw]

\* normalizeCompany: null only for a falsy payload
p0_normalizeCompany(checkoRaw) == IF checkoRaw = "null" THEN "null" ELSE "company"

\* a faulty handler that consumes whatever the provider returned
consumeRegardless(res, company, pro) == IF ~pro THEN "consume" ELSE "log"

\* bot.on('text') after the fetch: the two early returns, then "consume free"
p0_afterFetch(res, company, pro) ==
  IF res.error # "null" THEN "error"
  ELSE IF company = "null" THEN "unnormalized"
  ELSE IF ~pro THEN "consume"
  ELSE "log"

NoP0Res == [error |-> "-", raw |-> "-"]

P0Idle ==
  [pc |-> "idle", u |-> "-", txt |-> <<>>, inn |-> <<>>, row |-> P0NewRow,
   pro |-> FALSE, used |-> 0, res |-> NoP0Res, kind |-> "-", net |-> NoAnswer]

InitP0 ==
  /\ now = 0
  /\ bot = "part_000"
  /\ cfg \in P0Configs
  /\ users \in {NoTable} \cup {[u \in {"u1"} |-> r] : r \in P0ProRows}
  /\ quota = NoTable
  /\ cache = NoTable
  /\ checks = NoTable
  /\ h = [p \in Procs |-> P0Idle]
  /\ hist = [u \in Users |-> NoHist]
  /\ n = 0

(***************************************************************************)
(* part_000: bot.start and bot.on('text')                                  *)
(***************************************************************************)
\* a text message of user u reaches its handler
P0Text(p, u, t) ==
  /\ bot = "part_000"
  /\ h[p].pc = "idle"
  /\ n < MaxUpdates
  /\ n' = n + 1
  /\ h' = [h EXCEPT ![p] =
        [P0Idle EXCEPT !.pc = "ensureUser", !.u = u, !.txt = t,
                      !.kind = IF t = TxtStart THEN "start" ELSE "-"]]
  /\ UNCHANGED <<now, bot, cfg, users, quota, cache, checks, hist>>

\* ensureUser, then normalizeInn decides between the hint and the check
P0EnsureUser(p) ==
  /\ bot = "part_000"
  /\ h[p].pc = "ensureUser"
  /\ LET me == h[p]
         tbl == p0_ensureUser(users, me.u)
         inn == p0_normalizeInn(me.txt)
     IN /\ users' = tbl
        /\ h' = [h EXCEPT ![p] =
             IF me.kind = "start" THEN [me EXCEPT !.pc = "send"]
             ELSE IF inn = <<>> THEN [me EXCEPT !.pc = "send", !.kind = "hint"]
             ELSE [me EXCEPT !.pc = "canDoCheck", !.inn = inn, !.row = tbl[me.u]]]
  /\ UNCHANGED <<now, bot, cfg, quota, cache, checks, hist, n>>

\* canDoCheck
P0CanDoCheck(p) ==
  /\ bot = "part_000"
  /\ h[p].pc = "canDoCheck"
  /\ LET me == h[p]
         used == p0_getDailyQuota(quota, me.u)
         next == [me EXCEPT !.pro = p0_isPro(me.row), !.used = used]
     IN /\ h' = [h EXCEPT ![p] =
             IF p0_canDoCheck(me.row, used)
               THEN [next EXCEPT !.pc = "fetch"]
               ELSE [next EXCEPT !.pc = "send", !.kind = "limit"]]
        /\ hist' = [hist EXCEPT ![me.u].calls = @ + 1]
  /\ UNCHANGED <<now, bot, cfg, users, quota, cache, checks, n>>

\* the progress reply, fetchCheckoCompany and normalizeCompany
P0Fetch(p) ==
  /\ bot = "part_000"
  /\ h[p].pc = "fetch"
  /\ \E net \in (IF cfg.CHECKO_API_KEY THEN P0Answers ELSE {NoAnswer}) :
       LET me == h[p]
           res == p0_fetchCheckoCompany(cfg.CHECKO_API_KEY, net)
           company == p0_normalizeCompany(res.raw)
           to == p0_afterFetch(res, company, p0_isPro(me.row))
           seen == [me EXCEPT !.res = res, !.net = net]
       IN h' = [h EXCEPT ![p] =
            IF to \in {"error", "unnormalized"}
              THEN [seen EXCEPT !.pc = "send", !.kind = to]
              ELSE [seen EXCEPT !.pc = to]]
  /\ UNCHANGED <<now, bot, cfg, users, quota, cache, checks, hist, n>>

\* consumeFree: the update of bot_users
P0Consume(p) ==
  /\ bot = "part_000"
  /\ h[p].pc = "consume"
  /\ users' = p0_consumeFree(users, h[p].u, h[p].row)
  /\ h' = [h EXCEPT ![p].pc = "incRead"]
  /\ UNCHANGED <<now, bot, cfg, quota, cache, checks, hist, n>>

\* incDailyQuota, first half: getDailyQuota
P0IncRead(p) ==
  /\ bot = "part_000"
  /\ h[p].pc = "incRead"
  /\ h' = [h EXCEPT ![p].used = p0_getDailyQuota(quota, h[p].u), ![p].pc = "incWrite"]
  /\ UNCHANGED <<now, bot, cfg, users, quota, cache, checks, hist, n>>

\* incDailyQuota, second half: the insert or the update
P0IncWrite(p) ==
  /\ bot = "part_000"
  /\ h[p].pc = "incWrite"
  /\ quota' = p0_incDailyQuota(quota, h[p].u, h[p].used)
  /\ h' = [h EXCEPT ![p].pc = "log"]
  /\ UNCHANGED <<now, bot, cfg, users, cache, checks, hist, n>>

\* the PDF and saveCheckLog, then the report is due
P0Log(p) ==
  /\ bot = "part_000"
  /\ h[p].pc = "log"
  /\ checks' = saveCheckLog(checks, h[p].u)
  /\ h' = [h EXCEPT ![p].pc = "send", ![p].kind = "result"]
  /\ UNCHANGED <<now, bot, cfg, users, quota, cache, hist, n>>

\* the last reply of the update
P0Send(p) ==
  /\ bot = "part_000"
  /\ h[p].pc = "send"
  /\ h' = [h EXCEPT ![p] = P0Idle]
  /\ hist' = IF h[p].kind = "result" THEN [hist EXCEPT ![h[p].u].served = @ + 1]
             ELSE IF h[p].kind = "limit" THEN [hist EXCEPT ![h[p].u].rejected = @ + 1]
             ELSE hist
  /\ UNCHANGED <<now, bot, cfg, users, quota, cache, checks, n>>

P0Step(p) ==
  \/ P0EnsureUser(p)
  \/ P0CanDoCheck(p)
  \/ P0Fetch(p)
  \/ P0Consume(p)
  \/ P0IncRead(p)
  \/ P0IncWrite(p)
  \/ P0Log(p)
  \/ P0Send(p)

\* texts of one user handled one at a time, over several days
NextP0 ==
  \/ \E t \in {Txt10, Txt12, Txt5, TxtStart} : AllIdle /\ P0Text(1, "u1", t)
  \/ P0Step(1)
  \/ Tick

\* texts of any kind handled one at a time, within one day
NextP0Seq ==
  \/ \E t \in Texts : AllIdle /\ P0Text(1, "u1", t)
  \/ P0Step(1)

SpecP0 == InitP0 /\ [][NextP0]_vars


(***************************************************************************)
(* part_000: bot_quota_daily row by row.  The table the source expects     *)
(* has the serial id as its only key, so an insert never meets a conflict; *)
(* here quota is the sequence of the rows in the order of their insertion. *)
(***************************************************************************)
\* the rows of user u for today
RowsOfToday(tbl, u) == {i \in DOMAIN tbl : tbl[i].u = u /\ tbl[i].day = p0_todayKey}

\* getDailyQuota: maybeSingle gives the row, no row, or an error for several
\* rows; used is 0 without a row and after an error
getDailyQuotaRows(tbl, u) ==
  LET rows == RowsOfToday(tbl, u)
  IN IF Cardinality(rows) # 1 THEN 0 ELSE tbl[CHOOSE i \in rows : TRUE].used

\* incDailyQuota after its read: insert of a row with used 1 when it read 0,
\* else update of the rows of the day to used + 1
incDailyQuotaRows(tbl, u, used) ==
  IF used = 0
    THEN tbl \o <<[u |-> u, day |-> p0_todayKey, used |-> 1]>>
    ELSE [i \in DOMAIN tbl |->
            IF i \in RowsOfToday(tbl, u) THEN [tbl[i] EXCEPT !.used = used + 1] ELSE tbl[i]]

\* canDoCheck
P0CanDoCheckRows(p) ==
  /\ bot = "part_000"
  /\ h[p].pc = "canDoCheck"
  /\ LET me == h[p]
         used == getDailyQuotaRows(quota, me.u)
         next == [me EXCEPT !.pro = p0_isPro(me.row), !.used = used]
     IN /\ h' = [h EXCEPT ![p] =
             IF p0_canDoCheck(me.row, used)
               THEN [next EXCEPT !.pc = "fetch"]
               ELSE [next EXCEPT !.pc = "send", !.kind = "limit"]]
        /\ hist' = [hist EXCEPT ![me.u].calls = @ + 1]
  /\ UNCHANGED <<now, bot, cfg, users, quota, cache, checks, n>>

\* incDailyQuota, first half: getDailyQuota
P0IncReadRows(p) ==
  /\ bot = "part_000"
  /\ h[p].pc = "incRead"
  /\ h' = [h EXCEPT ![p].used = getDailyQuotaRows(quota, h[p].u), ![p].pc = "incWrite"]
  /\ UNCHANGED <<now, bot, cfg, users, quota, cache, checks, hist, n>>

\* incDailyQuota, second half: the insert or the update
P0IncWriteRows(p) ==
  /\ bot = "part_000"
  /\ h[p].pc = "incWrite"
  /\ quota' = incDailyQuotaRows(quota, h[p].u, h[p].used)
  /\ h' = [h EXCEPT ![p].pc = "log"]
  /\ UNCHANGED <<now, bot, cfg, users, cache, checks, hist, n>>

\* overlapping texts of one user within one day
NextP0Rows ==
  \/ \E p \in Procs, t \in {Txt10, Txt5} : P0Text(p, "u1", t)
  \/ \E p \in Procs :
       \/ P0EnsureUser(p)
       \/ P0CanDoCheckRows(p)
       \/ P0Fetch(p)
       \/ P0Consume(p)
       \/ P0IncReadRows(p)
       \/ P0IncWriteRows(p)
       \/ P0Log(p)
       \/ P0Send(p)

SpecP0Rows == InitP0 /\ [][NextP0Rows]_vars

(***************************************************************************)
(* part_001, node-telegram-bot-api iteration: configuration and helpers    *)
(***************************************************************************)
P1Configs == {[HAS_SB |-> TRUE, CHECKO_API_KEY |-> k] : k \in BOOLEAN}

TZ_OFFSET_MINUTES == 300

p1_limit == 3

\* dayKeyLocal: the date of now shifted by TZ_OFFSET_MINUTES
p1_dayKeyLocal == (now * 60 + TZ_OFFSET_MINUTES) \div (24 * 60)

p1_isValidInn(text) == AllDigits(text, 10) \/ AllDigits(text, 12)

\* ensureUser: a missing row is inserted as a free user, an existing one keeps its plan
p1_ensureUser(tbl, u) == IF Has(tbl, u) THEN tbl ELSE sbUpsert(tbl, u, FreeRow)

p1_isProActive(userRow) ==
  IF userRow.plan # "pro" THEN FALSE
  ELSE IF ~userRow.has_until THEN FALSE
  ELSE userRow.pro_until > now

\* quotaCheckAndConsume, the select: the used count of the day's row, -1 without a row
p1_quotaRead(tbl, u) ==
  IF Has(tbl, <<u, p1_dayKeyLocal>>) THEN tbl[<<u, p1_dayKeyLocal>>] ELSE -1

\* quotaCheckAndConsume, the write: update of a row that was read, insert otherwise
p1_quotaWrite(tbl, u, read) ==
  IF read >= 0
    THEN (IF Has(tbl, <<u, p1_dayKeyLocal>>)
            THEN sbUpsert(tbl, <<u, p1_dayKeyLocal>>, read + 1) ELSE tbl)
    ELSE (IF Has(tbl, <<u, p1_dayKeyLocal>>)
            THEN tbl ELSE sbUpsert(tbl, <<u, p1_dayKeyLocal>>, 1))

\* a faulty getCachedInn that serves the row whatever its age
p1_getCachedInnNoTtl(tbl, inn) == IF ~Has(tbl, inn) THEN "null" ELSE tbl[inn].result

\* getCachedInn: the result of a row that is at most 24 hours old
p1_getCachedInn(tbl, inn) ==
  IF ~Has(tbl, inn) THEN "null"
  ELSE IF now - tbl[inn].updated_at <= 24 THEN tbl[inn].result
  ELSE "null"

p1_setCachedInn(tbl, inn, result) ==
  sbUpsert(tbl, inn, [result |-> result, updated_at |-> now])

p1_logInnCheck(log, u) == sbUpsert(log, u, IF Has(log, u) THEN log[u] + 1 ELSE 1)

\* the payloads Checko answers with, by name: flat objects with a name and a
\* status; the name of "okDash" holds a hyphen
P1Payload(raw) ==
  IF raw = "okDash"
    THEN [name |-> <<"R", "-", "M">>, status |-> <<"A", "C", "T">>]
    ELSE [name |-> <<"R", "o", "m">>, status |-> <<"A", "C", "T">>]

\* fetchCheckoCompany: an object with an error, or the payload
p1_fetchCheckoCompany(conf) ==
  IF ~conf.CHECKO_API_KEY THEN {"error"} ELSE {"ok", "okDash", "error"}

\* the character class of escapeMd (the backquote, which no text of the model
\* holds, is left out)
MdSpecial ==
  {"_", "*", "[", "]", "(", ")", "~", ">", "#", "+", "-", "=", "|", "{", "}",
   ".", "!"}

\* escapeMd: a backslash in front of every character of the class
RECURSIVE escapeMd(_)
escapeMd(str) ==
  IF str = <<>> THEN <<>>
  ELSE (IF Head(str) \in MdSpecial THEN <<"\\", Head(str)>> ELSE <<Head(str)>>)
         \o escapeMd(Tail(str))

\* JSON.stringify of a string without quotes or backslashes in it
jsonString(str) == <<"\"">> \o str \o <<"\"">>

\* pickCompanyInfo of a flat payload: company is the payload itself, name is
\* company.name and status is company.status
pickCompanyInfo(payload) == [name |-> payload.name, status |-> payload.status]

\* formatCompanyMessage: the title line and the status line (the other fields
\* are absent from the payloads of the model), the empty line and the source
formatCompanyMessage(info, cached) ==
  <<"*">> \o escapeMd(info.name) \o <<"*", "\n">>
    \o <<"S", ":", " ">> \o escapeMd(jsonString(info.status)) \o <<"\n", "\n">>
    \o (IF cached THEN <<"c">> ELSE <<"f">>)

P1Idle ==
  [pc |-> "idle", u |-> "-", txt |-> <<>>, pro |-> FALSE, read |-> -1,
   res |-> "null", hit |-> FALSE, age |-> -1, kind |-> "-", err |-> "-",
   logged |-> "-"]

InitP1 ==
  /\ now = 0
  /\ bot = "part_001"
  /\ cfg \in P1Configs
  /\ users = NoTable
  /\ quota = NoTable
  /\ cache = NoTable
  /\ checks = NoTable
  /\ h = [p \in Procs |-> P1Idle]
  /\ hist = [u \in Users |-> NoHist]
  /\ n = 0

(***************************************************************************)
(* part_001: bot.onText(/start/) and bot.on("message")                     *)
(***************************************************************************)
\* a text message: /start is greeted, a tax id is looked up, the rest is
\* ignored: the handler returns at once, and the text stays on record
P1Message(p, u, t) ==
  /\ bot = "part_001"
  /\ h[p].pc = "idle"
  /\ n < MaxUpdates
  /\ n' = n + 1
  /\ LET text == trim(t)
         me == [P1Idle EXCEPT !.u = u, !.txt = text]
     IN h' = [h EXCEPT ![p] =
               IF text = TxtStart THEN [me EXCEPT !.pc = "ensureUser", !.kind = "start"]
               ELSE IF p1_isValidInn(text) THEN [me EXCEPT !.pc = "ensureUser"]
               ELSE [P1Idle EXCEPT !.txt = text, !.kind = "ignored"]]
  /\ UNCHANGED <<now, bot, cfg, users, quota, cache, checks, hist>>

\* ensureUser and isProActive, of the /start handler and of the message handler
P1EnsureUser(p) ==
  /\ bot = "part_001"
  /\ h[p].pc = "ensureUser"
  /\ LET me == h[p]
         tbl == p1_ensureUser(users, me.u)
         pro == p1_isProActive(tbl[me.u])
     IN /\ users' = tbl
        /\ h' = [h EXCEPT ![p] =
             [me EXCEPT !.pro = pro,
                       !.pc = IF me.kind = "start" THEN "send"
                              ELSE IF pro THEN "cache" ELSE "quotaRead"]]
  /\ UNCHANGED <<now, bot, cfg, quota, cache, checks, hist, n>>

\* quotaCheckAndConsume: the select and the decision
P1QuotaRead(p) ==
  /\ bot = "part_001"
  /\ h[p].pc = "quotaRead"
  /\ LET me == h[p]
         read == p1_quotaRead(quota, me.u)
         used == IF read >= 0 THEN read ELSE 0
     IN /\ h' = [h EXCEPT ![p] =
             IF used >= p1_limit
               THEN [me EXCEPT !.read = read, !.pc = "send", !.kind = "limit"]
               ELSE [me EXCEPT !.read = read, !.pc = "quotaWrite"]]
        /\ hist' = [hist EXCEPT ![me.u].calls = @ + 1]
  /\ UNCHANGED <<now, bot, cfg, users, quota, cache, checks, n>>

\* quotaCheckAndConsume: the update or the insert
P1QuotaWrite(p) ==
  /\ bot = "part_001"
  /\ h[p].pc = "quotaWrite"
  /\ quota' = p1_quotaWrite(quota, h[p].u, h[p].read)
  /\ h' = [h EXCEPT ![p].pc = "cache"]
  /\ UNCHANGED <<now, bot, cfg, users, cache, checks, hist, n>>

\* the progress message, getCachedInn, and on a miss fetchCheckoCompany
P1Cache(p) ==
  /\ bot = "part_001"
  /\ h[p].pc = "cache"
  /\ LET me == h[p]
         cached == p1_getCachedInn(cache, me.txt)
         age == RowAge(cache, me.txt)
     IN IF cached # "null"
          THEN h' = [h EXCEPT ![p] =
                  [me EXCEPT !.res = cached, !.hit = TRUE, !.age = age, !.pc = "log"]]
          ELSE \E raw \in p1_fetchCheckoCompany(cfg) :
                 h' = [h EXCEPT ![p] =
                    [me EXCEPT !.res = raw, !.age = age,
                              !.pc = IF raw = "error" THEN "log" ELSE "setCache"]]
  /\ UNCHANGED <<now, bot, cfg, users, quota, cache, checks, hist, n>>

\* setCachedInn of a payload without an error
P1SetCache(p) ==
  /\ bot = "part_001"
  /\ h[p].pc = "setCache"
  /\ cache' = p1_setCachedInn(cache, h[p].txt, h[p].res)
  /\ h' = [h EXCEPT ![p].pc = "log"]
  /\ UNCHANGED <<now, bot, cfg, users, quota, checks, hist, n>>

\* logInnCheck, then the reply is due
P1Log(p) ==
  /\ bot = "part_001"
  /\ h[p].pc = "log"
  /\ checks' = p1_logInnCheck(checks, h[p].u)
  /\ h' = [h EXCEPT ![p].pc = "send",
                    ![p].kind = IF h[p].res = "error" THEN "error" ELSE "result"]
  /\ UNCHANGED <<now, bot, cfg, users, quota, cache, hist, n>>

\* the last sendMessage of the update
P1Send(p) ==
  /\ bot = "part_001"
  /\ h[p].pc = "send"
  /\ h' = [h EXCEPT ![p] = P1Idle]
  /\ hist' = IF h[p].kind = "result" THEN [hist EXCEPT ![h[p].u].served = @ + 1]
             ELSE IF h[p].kind = "limit" THEN [hist EXCEPT ![h[p].u].rejected = @ + 1]
             ELSE hist
  /\ UNCHANGED <<now, bot, cfg, users, quota, cache, checks, n>>

P1Step(p) ==
  \/ P1EnsureUser(p)
  \/ P1QuotaRead(p)
  \/ P1QuotaWrite(p)
  \/ P1Cache(p)
  \/ P1SetCache(p)
  \/ P1Log(p)
  \/ P1Send(p)

\* messages of one user handled one at a time, over several days
NextP1 ==
  \/ \E t \in {Txt10, Txt12, Txt5, TxtStart} : AllIdle /\ P1Message(1, "u1", t)
  \/ P1Step(1)
  \/ Tick

SpecP1 == InitP1 /\ [][NextP1]_vars

(***************************************************************************)
(* part_004: withRetries, iteration by iteration.  fn is the list of what  *)
(* the calls fn(0), fn(1), ... do: return a value or throw an error.       *)
(***************************************************************************)
MaxRetries == 2

Outcomes == {"v1", "v2", "e1", "e2"}

Throws(o) == o \in {"e1", "e2"}

\* a faulty catch that keeps the first error
keepFirstErr(lastErr, e) == IF lastErr = "undefined" THEN e ELSE lastErr

\* catch (e) { lastErr = e; ... }
catchErr(lastErr, e) == e

RetryIdle ==
  [pc |-> "idle", fn |-> <<>>, retries |-> 0, i |-> 0, lastErr |-> "undefined",
   calls |-> <<>>, out |-> "-"]

InitRetry ==
  /\ now = 0
  /\ bot = "part_004"
  /\ cfg = [HAS_SB |-> FALSE, DADATA_TOKEN |-> TRUE, CHECKO_API_KEY |-> TRUE]
  /\ users = NoTable
  /\ quota = NoTable
  /\ cache = NoTable
  /\ checks = NoTable
  /\ h = [p \in Procs |-> RetryIdle]
  /\ hist = [u \in Users |-> NoHist]
  /\ n = 0

\* withRetries(fn, retries) is called: let lastErr; i = 0
P4WithRetries(p, fn, retries) ==
  /\ bot = "part_004"
  /\ h[p].pc = "idle"
  /\ h' = [h EXCEPT ![p] = [RetryIdle EXCEPT !.pc = "loop", !.fn = fn, !.retries = retries]]
  /\ UNCHANGED <<now, bot, cfg, users, quota, cache, checks, hist, n>>

\* one iteration of the loop: return await fn(i), or the catch, the sleep and i++
P4RetryCall(p) ==
  /\ bot = "part_004"
  /\ h[p].pc = "loop"
  /\ h[p].i <= h[p].retries
  /\ LET me == h[p]
         o == me.fn[me.i + 1]
         called == [me EXCEPT !.calls = Append(@, me.i)]
     IN h' = [h EXCEPT ![p] =
           IF Throws(o)
             THEN [called EXCEPT !.lastErr = catchErr(me.lastErr, o), !.i = me.i + 1]
             ELSE [called EXCEPT !.pc = "returned", !.out = o]]
  /\ UNCHANGED <<now, bot, cfg, users, quota, cache, checks, hist, n>>

\* the loop is over: throw lastErr
P4RetryThrow(p) ==
  /\ bot = "part_004"
  /\ h[p].pc = "loop"
  /\ h[p].i > h[p].retries
  /\ h' = [h EXCEPT ![p].pc = "threw", ![p].out = h[p].lastErr]
  /\ UNCHANGED <<now, bot, cfg, users, quota, cache, checks, hist, n>>

NextRetry ==
  \/ \E retries \in 0..MaxRetries, fn \in [1..(MaxRetries + 1) -> Outcomes] :
       P4WithRetries(1, fn, retries)
  \/ P4RetryCall(1)
  \/ P4RetryThrow(1)

\* a started call goes on: fn and the sleep between two calls come to an end
SpecRetry == InitRetry /\ [][NextRetry]_vars /\ WF_vars(P4RetryCall(1) \/ P4RetryThrow(1))

(***************************************************************************)
(* part_001: the select of quotaCheckAndConsume fails                      *)
(***************************************************************************)
\* the value of read after a failed select
SelErr == -2

\* a faulty error branch that refuses the request and logs nothing
selErrBlocks == [ok |-> FALSE, used |-> 0, logged |-> "-"]

\* quotaCheckAndConsume, if (selErr): console.error, then the request is
\* allowed and the function returns before any update or insert
p1_quotaSelErr == [ok |-> TRUE, used |-> 0, logged |-> "quota select error"]

P1QuotaSelErr(p) ==
  /\ bot = "part_001"
  /\ h[p].pc = "quotaRead"
  /\ LET me == [h[p] EXCEPT !.read = SelErr, !.logged = p1_quotaSelErr.logged]
     IN /\ h' = [h EXCEPT ![p] =
             IF p1_quotaSelErr.ok
               THEN [me EXCEPT !.pc = "cache"]
               ELSE [me EXCEPT !.pc = "send", !.kind = "limit"]]
        /\ hist' = [hist EXCEPT ![me.u].calls = @ + 1]
  /\ UNCHANGED <<now, bot, cfg, users, quota, cache, checks, n>>

NextP1Sel ==
  \/ \E t \in {Txt10, Txt5} : AllIdle /\ P1Message(1, "u1", t)
  \/ P1Step(1)
  \/ P1QuotaSelErr(1)
  \/ Tick

SpecP1Sel == InitP1 /\ [][NextP1Sel]_vars

(***************************************************************************)
(* part_001: setCachedInn and getCachedInn called one after the other.     *)
(* inn_cache keeps result as JSON; a payload is a parsed JSON answer, so   *)
(* the row holds it with the same fields.                                  *)
(***************************************************************************)
TripIdle ==
  [pc |-> "idle", fn |-> "-", inn |-> <<>>, payload |-> "null", putAt |-> -1,
   got |-> "null", getAt |-> -1]

InitTrip ==
  /\ now = 0
  /\ bot = "part_001"
  /\ cfg \in P1Configs
  /\ users = NoTable
  /\ quota = NoTable
  /\ cache = NoTable
  /\ checks = NoTable
  /\ h = [p \in Procs |-> TripIdle]
  /\ hist = [u \in Users |-> NoHist]
  /\ n = 0

\* setCachedInn(inn, payload)
P1SetCachedInn(p, inn) ==
  /\ bot = "part_001"
  /\ \E payload \in {"ok", "okDash"} :
       /\ cache' = p1_setCachedInn(cache, inn, payload)
       /\ h' = [h EXCEPT ![p] = [TripIdle EXCEPT !.fn = "setCachedInn", !.inn = inn,
                                                !.payload = payload, !.putAt = now]]
  /\ UNCHANGED <<now, bot, cfg, users, quota, checks, hist, n>>

\* getCachedInn(inn), for the tax id of the last setCachedInn
P1GetCachedInn(p) ==
  /\ bot = "part_001"
  /\ h[p].fn # "-"
  /\ h' = [h EXCEPT ![p].fn = "getCachedInn",
                    ![p].got = p1_getCachedInn(cache, h[p].inn),
                    ![p].getAt = now]
  /\ UNCHANGED <<now, bot, cfg, users, quota, cache, checks, hist, n>>

NextTrip ==
  \/ \E inn \in {Txt10, Txt12} : P1SetCachedInn(1, inn)
  \/ P1GetCachedInn(1)
  \/ Tick

SpecTrip == InitTrip /\ [][NextTrip]_vars

(***************************************************************************)
(* Failing calls after the acknowledgement: index.js, part_005, part_001   *)
(***************************************************************************)
\* index.js: an awaited storage, provider, PDF or Telegram call of handleInn
\* throws and the catch of the webhook handler logs it
IdxThrow(p) ==
  /\ bot = "index.js"
  /\ \/ h[p].pc \in {"cache", "log", "send"}
     \/ cfg.HAS_SB /\ h[p].pc \in {"quotaUpsert", "quotaUpdate", "cacheSet"}
  /\ h' = [h EXCEPT ![p] = IdxCaught(h[p])]
  /\ UNCHANGED <<now, bot, cfg, users, quota, cache, checks, hist, n>>

\* part_005: an awaited storage, provider or Telegram call throws and the
\* catch of the webhook handler logs it
P5Throw(p) ==
  /\ bot = "part_005"
  /\ \/ h[p].pc \in {"fetch", "send", "incRead", "incWrite"}
     \/ cfg.HAS_SB /\ h[p].pc = "report"
     \/ cfg.HAS_SB /\ ~h[p].pro /\ h[p].pc = "limits"
  /\ h' = [h EXCEPT ![p] = P5Caught(h[p])]
  /\ UNCHANGED <<now, bot, cfg, users, quota, cache, checks, hist, n>>

\* part_001: fetch or bot.sendMessage rejects (storage errors are logged by
\* the helpers and not thrown); control passes to the catch of the handler
P1Throw(p) ==
  /\ bot = "part_001"
  /\ h[p].pc \in {"cache", "send"}
  /\ h[p].kind # "start"
  /\ h' = [h EXCEPT ![p].pc = "catch"]
  /\ UNCHANGED <<now, bot, cfg, users, quota, cache, checks, hist, n>>

\* part_001, the catch: the "internal error" message is sent; a failure of
\* that sendMessage is swallowed by the inner try
P1Catch(p) ==
  /\ bot = "part_001"
  /\ h[p].pc = "catch"
  /\ \E sent \in BOOLEAN :
       h' = [h EXCEPT ![p] =
          [P1Idle EXCEPT !.txt = h[p].txt,
                        !.err = IF sent THEN "reported" ELSE "undelivered"]]
  /\ UNCHANGED <<now, bot, cfg, users, quota, cache, checks, hist, n>>

\* part_001, bot.onText(/start/): bot.sendMessage rejects.  The callback has
\* no try around it and nothing awaits its promise, so the rejection stays
\* unhandled (no unhandledRejection listener is installed)
P1StartReject(p) ==
  /\ bot = "part_001"
  /\ h[p].pc = "send"
  /\ h[p].kind = "start"
  /\ h' = [h EXCEPT ![p] =
        [P1Idle EXCEPT !.txt = h[p].txt, !.err = "unhandledRejection"]]
  /\ UNCHANGED <<now, bot, cfg, users, quota, cache, checks, hist, n>>

NextIdxErr ==
  \/ \E t \in {Txt10, Txt5} : AllIdle /\ IdxWebhook(1, "u1", t)
  \/ IdxStep(1)
  \/ IdxThrow(1)

NextP5Err ==
  \/ \E t \in {Txt10, Txt5} : AllIdle /\ P5Webhook(1, "u1", t)
  \/ \E days \in {1} : AllIdle /\ P5WebhookGrant(1, "u2", "u1", days)
  \/ P5Step(1)
  \/ P5Throw(1)

NextP1Err ==
  \/ \E t \in {Txt10, Txt5} : AllIdle /\ P1Message(1, "u1", t)
  \/ P1Step(1)
  \/ P1Throw(1)
  \/ P1Catch(1)

NextP1Start ==
  \/ \E t \in {Txt10, Txt5, TxtStart} : AllIdle /\ P1Message(1, "u1", t)
  \/ P1Step(1)
  \/ P1Throw(1)
  \/ P1Catch(1)
  \/ P1StartReject(1)
  \/ Tick

SpecP1Start == InitP1 /\ [][NextP1Start]_vars

(***************************************************************************)
(* The HTML replies of part_004, part_000 and part_005 as functions of the *)
(* provider fields.  A message is the sequence of its pieces; a piece is   *)
(* markup of the bot (field "-") or the text put in for a provider field.  *)
(***************************************************************************)
\* values of a provider field: absent or empty, plain, with HTML characters
FieldTexts == {<<>>, <<"A">>, <<"<", "&", ">">>}

RECURSIVE replaceAll(_, _, _)
replaceAll(s, ch, rep) ==
  IF s = <<>> THEN <<>>
  ELSE (IF Head(s) = ch THEN rep ELSE <<Head(s)>>) \o replaceAll(Tail(s), ch, rep)

\* escapeHtml: & first, then < and >
escapeHtml(s) ==
  replaceAll(replaceAll(replaceAll(s, "&", <<"&", "a", "m", "p", ";">>),
                        "<", <<"&", "l", "t", ";">>),
             ">", <<"&", "g", "t", ";">>)

Piece(field, text) == [field |-> field, text |-> text]

Bold == Piece("-", <<"<", "b", ">">>)

Code == Piece("-", <<"<", "c", "o", "d", "e", ">">>)

\* lines.push of a line of one field, skipped when the value is falsy
Line(markup, field, value, text) ==
  IF value = <<>> THEN <<>> ELSE <<markup, Piece(field, text)>>

\* formatResult of part_004: the lines of the first DaData suggestion s, or
\* the error line of a failed DaData result
p4_formatResultHtml(ok, s, error) ==
  IF ok
    THEN Line(Bold, "name", s.name, escapeHtml(s.name))
         \o Line(Code, "ogrn", s.ogrn, s.ogrn)
         \o Line(Code, "kpp", s.kpp, s.kpp)
         \o Line(Bold, "status", s.status, escapeHtml(s.status))
         \o Line(Bold, "address", s.address, escapeHtml(s.address))
    ELSE <<Piece("-", <<"D", "a", "D", "a", "t", "a">>), Piece("error", escapeHtml(error))>>

\* formatCompanyResult of part_000: the lines of the DaData record dd and the
\* Checko warning
formatCompanyResult(dd, warning) ==
  Line(Bold, "name", dd.name, escapeHtml(dd.name))
  \o Line(Code, "ogrn", dd.ogrn, dd.ogrn)
  \o Line(Code, "kpp", dd.kpp, dd.kpp)
  \o Line(Bold, "status", dd.status, escapeHtml(dd.status))
  \o Line(Bold, "address", dd.address, escapeHtml(dd.address))
  \o Line(Piece("-", <<"C", "h", "e", "c", "k", "o">>), "warning", warning, escapeHtml(warning))

\* renderPremiumTelegram of part_005: the lines of the normalized record and
\* the interpretation
renderPremiumTelegram(normalized, aiText) ==
  Line(Bold, "name", normalized.name, escapeHtml(normalized.name))
  \o Line(Code, "ogrn", normalized.ogrn, escapeHtml(normalized.ogrn))
  \o Line(Code, "kpp", normalized.kpp, escapeHtml(normalized.kpp))
  \o Line(Bold, "status", normalized.status, escapeHtml(normalized.status))
  \o Line(Bold, "address", normalized.address, escapeHtml(normalized.address))
  \o Line(Bold, "interpretation", aiText, escapeHtml(aiText))

Records ==
  [name : FieldTexts, ogrn : FieldTexts, kpp : FieldTexts,
   status : FieldTexts, address : FieldTexts]

RenderIdle == [fn |-> "-", msg |-> <<>>]

InitRender ==
  /\ now = 0
  /\ bot \in {"part_004", "part_000", "part_005"}
  /\ cfg = [HAS_SB |-> FALSE]
  /\ users = NoTable
  /\ quota = NoTable
  /\ cache = NoTable
  /\ checks = NoTable
  /\ h = [p \in Procs |-> RenderIdle]
  /\ hist = [u \in Users |-> NoHist]
  /\ n = 0

\* part_004 renders the result of one lookup
P4Render(p) ==
  /\ bot = "part_004"
  /\ h[p].fn = "-"
  /\ \E ok \in BOOLEAN, s \in Records, error \in FieldTexts :
       h' = [h EXCEPT ![p] = [fn |-> "formatResult",
                              msg |-> p4_formatResultHtml(ok, s, error)]]
  /\ UNCHANGED <<now, bot, cfg, users, quota, cache, checks, hist, n>>

\* part_000 renders the result of one lookup
P0Render(p) ==
  /\ bot = "part_000"
  /\ h[p].fn = "-"
  /\ \E dd \in Records, warning \in FieldTexts :
       h' = [h EXCEPT ![p] = [fn |-> "formatCompanyResult",
                              msg |-> formatCompanyResult(dd, warning)]]
  /\ UNCHANGED <<now, bot, cfg, users, quota, cache, checks, hist, n>>

\* part_005 renders the result of one lookup
P5Render(p) ==
  /\ bot = "part_005"
  /\ h[p].fn = "-"
  /\ \E normalized \in Records, aiText \in FieldTexts :
       h' = [h EXCEPT ![p] = [fn |-> "renderPremiumTelegram",
                              msg |-> renderPremiumTelegram(normalized, aiText)]]
  /\ UNCHANGED <<now, bot, cfg, users, quota, cache, checks, hist, n>>

NextRender ==
  \/ P4Render(1)
  \/ P0Render(1)
  \/ P5Render(1)

SpecRender == InitRender /\ [][NextRender]_vars

(***************************************************************************)
(* The reply to a lookup and the reply to the next lookup of the same tax  *)
(* id, served from the cache: part_000 (first handleInn), part_004 and     *)
(* part_001.  inn_cache keeps the payload as JSON, so what is read is what *)
(* was written.                                                            *)
(***************************************************************************)
\* part_000: upsert of { inn, data, updated_at }
cacheSet(tbl, inn, data) == sbUpsert(tbl, inn, [data |-> data, updated_at |-> now])

\* part_000: data?.data of the row (there is no TTL in this function)
cacheGet(tbl, inn) == tbl[inn].data

\* one member of an object, "key":"value"; a member without a value is left out
jsonMember(key, value) ==
  IF value = <<>> THEN <<>>
  ELSE <<jsonString(<<key>>) \o <<":">> \o jsonString(value)>>

RECURSIVE joinTexts(_, _)
joinTexts(texts, sep) ==
  IF texts = <<>> THEN <<>>
  ELSE IF Len(texts) = 1 THEN texts[1]
  ELSE texts[1] \o sep \o joinTexts(Tail(texts), sep)

\* JSON.stringify of the merged object, member by member
jsonStringify(merged) ==
  <<"{">>
    \o joinTexts(jsonMember("name", merged.dd.name) \o jsonMember("ogrn", merged.dd.ogrn)
                   \o jsonMember("kpp", merged.dd.kpp)
                   \o jsonMember("status", merged.dd.status)
                   \o jsonMember("address", merged.dd.address)
                   \o jsonMember("warning", merged.warning), <<",">>)
    \o <<"}">>

\* part_000, the reply of the cache branch: the heading and the escaped JSON
\* text of the cached object (its first 3500 characters, which is all of it
\* for the payloads here)
p0_cachedReply(cached) ==
  <<Piece("-", <<"cache">>), Piece("json", escapeHtml(jsonStringify(cached)))>>

ReplyIdle == [fn |-> "-", inn |-> <<>>, fresh |-> <<>>, cached |-> <<>>]

InitReply ==
  /\ now = 0
  /\ bot \in {"part_000", "part_004", "part_001"}
  /\ cfg = [HAS_SB |-> TRUE]
  /\ users = NoTable
  /\ quota = NoTable
  /\ cache = NoTable
  /\ checks = NoTable
  /\ h = [p \in Procs |-> ReplyIdle]
  /\ hist = [u \in Users |-> NoHist]
  /\ n = 0

\* part_000 handleInn, providers: cacheSet(inn, merged), then formatCompanyResult
P0ReplyFresh(p) ==
  /\ bot = "part_000"
  /\ h[p].fn = "-"
  /\ \E dd \in Records, warning \in FieldTexts :
       /\ cache' = cacheSet(cache, Txt10, [dd |-> dd, warning |-> warning])
       /\ h' = [h EXCEPT ![p] = [ReplyIdle EXCEPT !.fn = "fresh", !.inn = Txt10,
                                   !.fresh = formatCompanyResult(dd, warning)]]
  /\ UNCHANGED <<now, bot, cfg, users, quota, checks, hist, n>>

\* part_000 handleInn, cache: the next lookup of the tax id
P0ReplyCached(p) ==
  /\ bot = "part_000"
  /\ h[p].fn = "fresh"
  /\ Has(cache, h[p].inn)
  /\ h' = [h EXCEPT ![p].fn = "cached",
                    ![p].cached = p0_cachedReply(cacheGet(cache, h[p].inn))]
  /\ UNCHANGED <<now, bot, cfg, users, quota, cache, checks, hist, n>>

\* part_004 handleInn, providers: saveCachedInn(inn, combined), then formatResult
P4ReplyFresh(p) ==
  /\ bot = "part_004"
  /\ h[p].fn = "-"
  /\ \E ok \in BOOLEAN, s \in Records, error \in {<<>>, <<"<", "&", ">">>} :
       /\ cache' = saveCachedInn(cache, Txt10, [ok |-> ok, s |-> s, error |-> error])
       /\ h' = [h EXCEPT ![p] = [ReplyIdle EXCEPT !.fn = "fresh", !.inn = Txt10,
                                   !.fresh = p4_formatResultHtml(ok, s, error)]]
  /\ UNCHANGED <<now, bot, cfg, users, quota, checks, hist, n>>

\* part_004 handleInn, cache: formatResult of the cached results
P4ReplyCached(p) ==
  /\ bot = "part_004"
  /\ h[p].fn = "fresh"
  /\ Has(cache, h[p].inn)
  /\ LET cached == getCachedInn(cache, h[p].inn)
     IN h' = [h EXCEPT ![p].fn = "cached",
                       ![p].cached = p4_formatResultHtml(cached.ok, cached.s, cached.error)]
  /\ UNCHANGED <<now, bot, cfg, users, quota, cache, checks, hist, n>>

\* part_001 message handler, provider: setCachedInn, pickCompanyInfo(raw)
P1ReplyFresh(p) ==
  /\ bot = "part_001"
  /\ h[p].fn = "-"
  /\ \E raw \in {"ok", "okDash"} :
       /\ cache' = p1_setCachedInn(cache, Txt10, raw)
       /\ h' = [h EXCEPT ![p] = [ReplyIdle EXCEPT !.fn = "fresh", !.inn = Txt10,
                    !.fresh = formatCompanyMessage(pickCompanyInfo(P1Payload(raw)), FALSE)]]
  /\ UNCHANGED <<now, bot, cfg, users, quota, checks, hist, n>>

\* part_001 message handler, cache: pickCompanyInfo(cached)
P1ReplyCached(p) ==
  /\ bot = "part_001"
  /\ h[p].fn = "fresh"
  /\ p1_getCachedInn(cache, h[p].inn) # "null"
  /\ LET cached == p1_getCachedInn(cache, h[p].inn)
     IN h' = [h EXCEPT ![p].fn = "cached",
              ![p].cached = formatCompanyMessage(pickCompanyInfo(P1Payload(cached)), TRUE)]
  /\ UNCHANGED <<now, bot, cfg, users, quota, cache, checks, hist, n>>

NextReply ==
  \/ P0ReplyFresh(1)
  \/ P0ReplyCached(1)
  \/ P4ReplyFresh(1)
  \/ P4ReplyCached(1)
  \/ P1ReplyFresh(1)
  \/ P1ReplyCached(1)

SpecReply == InitReply /\ [][NextReply]_vars

(***************************************************************************)
(* part_000: normalizeCompany field by field.  A payload is the wrapper it *)
(* came in and the strings at the paths normalizeCompany reads; "" stands  *)
(* for a value that is missing, null or empty.                             *)
(***************************************************************************)
\* the paths read for each field, in the order of the || chains
Candidates ==
  [name |-> <<"short_name", "name", "full_name", "ul.name", "ip.fio">>,
   ogrn |-> <<"ogrn", "ul.ogrn", "ip.ogrnip">>,
   kpp |-> <<"kpp", "ul.kpp">>,
   status |-> <<"status", "state", "ul.status">>,
   address |-> <<"address", "ul.address", "address.value", "fns.address">>]

Fields == DOMAIN Candidates

Paths == UNION {{Candidates[f][i] : i \in 1..Len(Candidates[f])} : f \in Fields}

\* payloads are bounded by the number of paths that hold a value
MaxPresent == 2

\* the object with the value "at:<path>" at each path of present; address
\* cannot be a string and an object with a value at once
DataOf(present) == [q \in Paths |-> IF q \in present THEN "at:" \o q ELSE ""]

Payloads ==
  {[wrap |-> "falsy", data |-> DataOf({})]} \cup
  {[wrap |-> w, data |-> DataOf(present)] :
     w \in {"data", "result", "bare"},
     present \in {S \in SUBSET Paths :
                    /\ Cardinality(S) <= MaxPresent
                    /\ ~({"address", "address.value"} \subseteq S)}}

\* the value of the expression data.<path>: data.address is an object, and so
\* truthy, when it has a value
Read(data, path) ==
  IF path = "address" /\ data["address.value"] # "" THEN "object:address"
  ELSE data[path]

\* a || b || ... || null over the candidates from position i on
RECURSIVE OrChain(_, _, _)
OrChain(data, paths, i) ==
  IF i > Len(paths) THEN ""
  ELSE IF Read(data, paths[i]) # "" THEN Read(data, paths[i])
  ELSE OrChain(data, paths, i + 1)

\* the return value null
NullCompany == [null |-> TRUE, company |-> [f \in Fields |-> ""]]

\* a faulty normalizeCompany that gives up on a payload with a missing field
normalizeComplete(checkoRaw) ==
  IF checkoRaw.wrap = "falsy" THEN NullCompany
  ELSE IF \E f \in Fields : OrChain(checkoRaw.data, Candidates[f], 1) = "" THEN NullCompany
  ELSE [null |-> FALSE,
        company |-> [f \in Fields |-> OrChain(checkoRaw.data, Candidates[f], 1)]]

\* normalizeCompany: data is checkoRaw.data, checkoRaw.result or checkoRaw
\* itself; null for a falsy payload, else one || chain per field
normalizeCompany(checkoRaw) ==
  IF checkoRaw.wrap = "falsy" THEN NullCompany
  ELSE [null |-> FALSE,
        company |-> [f \in Fields |-> OrChain(checkoRaw.data, Candidates[f], 1)]]

NormIdle == [fn |-> "-", arg |-> [wrap |-> "-", data |-> DataOf({})], out |-> NullCompany]

InitNorm ==
  /\ now = 0
  /\ bot = "part_000"
  /\ cfg = [HAS_SB |-> FALSE]
  /\ users = NoTable
  /\ quota = NoTable
  /\ cache = NoTable
  /\ checks = NoTable
  /\ h = [p \in Procs |-> NormIdle]
  /\ hist = [u \in Users |-> NoHist]
  /\ n = 0

\* part_000 normalizes the payload of one lookup
P0Normalize(p) ==
  /\ bot = "part_000"
  /\ h[p].fn = "-"
  /\ \E checkoRaw \in Payloads :
       h' = [h EXCEPT ![p] = [fn |-> "normalizeCompany", arg |-> checkoRaw,
                              out |-> normalizeCompany(checkoRaw)]]
  /\ UNCHANGED <<now, bot, cfg, users, quota, cache, checks, hist, n>>

NextNorm == P0Normalize(1)

SpecNorm == InitNorm /\ [][NextNorm]_vars

(***************************************************************************)
(* part_001 and part_002: the PRO test on the rows bot_users can hold.     *)
(* plan and pro_until are set in the table by the payment handler or by    *)
(* hand; the bot reads them.                                               *)
(***************************************************************************)
\* isPro of part_002: no Number.isFinite, but NaN > Date.now() is false too
p2_isPro(user) ==
  IF user.plan # "pro" THEN FALSE
  ELSE IF ~user.has_until THEN FALSE
  ELSE user.pro_until > now

\* rows of bot_users: pro_until null, or a time within the clock's range
UserRows ==
  {[plan |-> pl, has_until |-> FALSE, pro_until |-> 0] : pl \in {"free", "pro"}} \cup
  {[plan |-> pl, has_until |-> TRUE, pro_until |-> 12 * k] :
     pl \in {"free", "pro"}, k \in 0..MaxTicks}

ProIdle == [pc |-> "idle", fn |-> "-", row |-> FreeRow, at |-> 0, out |-> FALSE]

InitPro ==
  /\ now = 0
  /\ bot \in {"part_001", "part_002"}
  /\ cfg = [HAS_SB |-> TRUE]
  /\ users \in [{"u1"} -> UserRows]
  /\ quota = NoTable
  /\ cache = NoTable
  /\ checks = NoTable
  /\ h = [p \in Procs |-> ProIdle]
  /\ hist = [u \in Users |-> NoHist]
  /\ n = 0

\* part_001 tests the row of the user
P1IsProActive(p) ==
  /\ bot = "part_001"
  /\ h' = [h EXCEPT ![p] = [ProIdle EXCEPT !.fn = "isProActive", !.row = users["u1"],
                                          !.at = now, !.out = p1_isProActive(users["u1"])]]
  /\ UNCHANGED <<now, bot, cfg, users, quota, cache, checks, hist, n>>

\* part_002 tests the row of the user
P2IsPro(p) ==
  /\ bot = "part_002"
  /\ h' = [h EXCEPT ![p] = [ProIdle EXCEPT !.fn = "isPro", !.row = users["u1"],
                                          !.at = now, !.out = p2_isPro(users["u1"])]]
  /\ UNCHANGED <<now, bot, cfg, users, quota, cache, checks, hist, n>>

NextPro ==
  \/ P1IsProActive(1)
  \/ P2IsPro(1)
  \/ Tick

SpecPro == InitPro /\ [][NextPro]_vars

(***************************************************************************)
(* Specifications that cover two iterations: one of them is deployed       *)
(***************************************************************************)
\* the two iterations whose getCachedInn has a TTL
SpecCache == (InitP4 \/ InitP1) /\ [][NextP4Day \/ NextP1]_vars

\* the dispatchers of part_004 and part_000
SpecText == (InitP4 \/ InitP0) /\ [][NextP4Seq \/ NextP0Seq]_vars

\* the two iterations that acknowledge first
SpecAck == (InitIdx \/ InitP5) /\ [][NextIdx \/ NextP5]_vars

SpecErr ==
  (InitIdx \/ InitP5 \/ InitP1) /\ [][NextIdxErr \/ NextP5Err \/ NextP1Err]_vars

(***************************************************************************)
(* Properties of part_004                                                  *)
(***************************************************************************)
\* C1: with storage configured and updates handled one at a time, a user
\* gets at most FREE_DAILY_LIMIT results a day, the limit message is only
\* ever sent once FREE_DAILY_LIMIT results were sent that day, and between
\* updates the day's quota row counts exactly the results sent
C1_FreeLimitSequential ==
  (bot = "part_004" /\ cfg.HAS_SB) =>
    \A u \in Users :
      /\ hist[u].served <= FREE_DAILY_LIMIT
      /\ (hist[u].rejected > 0 => hist[u].served = FREE_DAILY_LIMIT)
      /\ (AllIdle => getDailyCount(quota, u) = hist[u].served)

\* three results and then the limit message on a later day, one result from the cache
C1_Witness ==
  /\ bot = "part_004" /\ cfg.HAS_SB
  /\ now >= 24
  /\ hist["u1"].served = FREE_DAILY_LIMIT
  /\ hist["u1"].rejected = 1
  /\ checks["u1"] = FREE_DAILY_LIMIT
  /\ Cardinality(DOMAIN cache) = 2

\* C2: of the overlapping requests of one user on one day no more than the
\* allowance are approved: the results sent in a day never exceed
\* FREE_DAILY_LIMIT
C2_NoDoubleSpend ==
  (bot = "part_004" /\ cfg.HAS_SB) =>
    \A u \in Users : hist[u].served <= FREE_DAILY_LIMIT

Failed(res) == res.dadata # "ok" /\ res.checko # "ok"

\* C7: no cache row holds a lookup in which every provider failed, and no
\* reply is rendered from such a row
C7_NoNegativeCaching ==
  bot = "part_004" =>
    /\ \A inn \in DOMAIN cache : ~Failed(cache[inn].result)
    /\ \A p \in Procs : h[p].hit => ~Failed(h[p].res)

\* C11: POST /webhook of part_004 answers every update with status 200,
\* whatever happens while the update is handled
C11_WebhookAlways200 ==
  bot = "part_004" => \A p \in Procs : h[p].resp \in {0, 200}

\* the lookup of handler p asked the providers and has their results
Asked(p) ==
  /\ h[p].first # "-"
  /\ h[p].pc \in {"saveCache", "incRead", "incWrite", "log", "send"}

\* C17: without its key a provider function of part_004 makes no HTTP
\* request and returns the demo result, and the update handler goes on to the
\* reply instead of throwing
C17_DemoWithoutKey ==
  bot = "part_004" =>
    \A p \in Procs :
      /\ h[p].resp # 500
      /\ (h[p].dOut # "-" /\ ~cfg.DADATA_TOKEN) =>
           (h[p].dOut = "demo" /\ h[p].dreq = 0)
      /\ (h[p].cOut # "-" /\ ~cfg.CHECKO_API_KEY) =>
           (h[p].cOut = "demo" /\ h[p].creq = 0)
      /\ (Asked(p) /\ ~cfg.DADATA_TOKEN /\ ~cfg.CHECKO_API_KEY) =>
           ( /\ formatResult(h[p].res).dadata = "demo"
             /\ formatResult(h[p].res).checko = "demo" )

\* a lookup without keys is about to send its reply
C17_Witness ==
  /\ bot = "part_004"
  /\ ~cfg.DADATA_TOKEN /\ ~cfg.CHECKO_API_KEY
  /\ \E p \in Procs :
       /\ Asked(p) /\ h[p].pc = "send" /\ h[p].kind = "result"
       /\ h[p].res = [dadata |-> "demo", checko |-> "demo"]
       /\ h[p].dreq = 0 /\ h[p].creq = 0

\* every attempt the request made ran into the timeout
AllTimedOut(net) ==
  /\ Len(net) = RETRIES + 1
  /\ \A i \in 1..Len(net) : net[i] = "timeout"

\* C18: a provider request of part_004 that times out on every attempt
\* becomes a failed provider result; the handler does not throw, writes the
\* check log and comes to the reply, which reports the provider error
C18_TimeoutIsFailedResult ==
  bot = "part_004" =>
    \A p \in Procs :
      /\ h[p].resp # 500
      /\ h[p].dOut # "thrown" /\ h[p].cOut # "thrown"
      /\ (h[p].dOut # "-" /\ AllTimedOut(h[p].dnet)) => h[p].dOut = "timeout"
      /\ (h[p].cOut # "-" /\ AllTimedOut(h[p].cnet)) => h[p].cOut = "timeout"
      /\ (Asked(p) /\ AllTimedOut(h[p].dnet)) => formatResult(h[p].res).dadata = "error"
      /\ (Asked(p) /\ AllTimedOut(h[p].cnet)) => formatResult(h[p].res).checko = "error"
      /\ (Asked(p) /\ h[p].pc = "send" /\ cfg.HAS_SB) => Has(checks, h[p].u)

\* both provider requests timed out on every attempt and the reply is due
C18_Witness ==
  /\ bot = "part_004"
  /\ \E p \in Procs :
       /\ Asked(p) /\ h[p].pc = "send" /\ h[p].kind = "result"
       /\ AllTimedOut(h[p].dnet) /\ AllTimedOut(h[p].cnet)
       /\ h[p].dreq = RETRIES + 1 /\ h[p].creq = RETRIES + 1
       /\ h[p].res = [dadata |-> "timeout", checko |-> "timeout"]

\* C19: a sendMessage of part_004 is posted at most once per message; the
\* retry wrapper never posts it again
C19_MessagePostedOnce ==
  bot = "part_004" => \A p \in Procs : h[p].posts <= 1

\* C20: the combined result of the two concurrent provider calls of part_004,
\* the cache row written from it and the reply rendered from it do not depend
\* on which provider answered first; the organisation lines are those of
\* DaData exactly when DaData succeeded with a suggestion; and a provider
\* whose request threw leaves the result of the other one in place
C20_OrderIndependent ==
  bot = "part_004" =>
    \A p \in Procs :
      Asked(p) =>
        /\ h[p].res = [dadata |-> h[p].dOut, checko |-> h[p].cOut]
        /\ (cfg.HAS_SB /\ h[p].pc # "saveCache") =>
             (Has(cache, h[p].txt) /\ cache[h[p].txt].result = h[p].res)
        /\ formatResult(h[p].res).org = "dadata" <=> h[p].dOut = "ok"
        /\ h[p].dOut = "ok" => formatResult(h[p].res).dadata = "fields"
        /\ h[p].cOut = "ok" => formatResult(h[p].res).checko = "ok"

\* Checko gave up first with a thrown timeout, DaData then answered with a
\* suggestion, and the reply is due
C20_Witness ==
  /\ bot = "part_004"
  /\ \E p \in Procs :
       /\ Asked(p) /\ h[p].pc = "send"
       /\ h[p].first = "checko"
       /\ AllTimedOut(h[p].cnet)
       /\ h[p].dOut = "ok"

(***************************************************************************)
(* Properties of index.js, first iteration                                 *)
(***************************************************************************)
\* C4: the k-th call of checkAndConsumeFreeQuota for a user on a day returns
\* allowed with left = FREE_DAILY_LIMIT - k while k <= FREE_DAILY_LIMIT, and
\* allowed = false with left = 0 for every later call of that day
C4_QuotaCountsDown ==
  (bot = "index.js" /\ cfg.HAS_SB) =>
    \A p \in Procs :
      (h[p].k > 0 /\ h[p].pc \notin {"quotaUpsert", "quotaUpdate"}) =>
        h[p].q = IF h[p].k <= FREE_DAILY_LIMIT
                   THEN [allowed |-> TRUE, left |-> FREE_DAILY_LIMIT - h[p].k]
                   ELSE [allowed |-> FALSE, left |-> 0]

\* C8: handleInn takes its result from the cache only when the row is at most
\* 24 hours old
C8_FreshCacheOnly ==
  bot = "index.js" => \A p \in Procs : h[p].hit => h[p].age <= 24

\* C28: rows of inn_checks are written once: a step of a handler may add
\* rows, and every row that was there is there afterwards, unchanged
C28_LogRowsWriteOnce ==
  [][bot = "index.js" =>
       \A i \in DOMAIN checks : i \in DOMAIN checks' /\ checks'[i] = checks[i]]_vars

\* C27: in the subscriptions iteration of index.js a user without a running
\* paid period gets one free check and no more: no second result is sent
C27_OneFreeCheck ==
  bot = "index.js/subscriptions" =>
    \A u \in DOMAIN users :
      ~sub_isPaidActive(users[u]) => hist[u].served <= 1

(***************************************************************************)
(* Properties of part_005                                                  *)
(***************************************************************************)
\* C3: a user whose stored row had plan "pro" and a pro_until in the future
\* when their message arrived is never answered with the limit message
C3_ProNeverLimited ==
  bot = "part_005" =>
    \A p \in Procs :
      (h[p].pc = "send" /\ h[p].kind = "limit") => ~h[p].proAtArrival

\* C24: no increment of the daily count is lost: every incDailyUsed that
\* completes, also next to another one for the same user and day, leaves the
\* stored count one higher than it was
C24_NoLostIncrement ==
  [][\A p \in Procs :
       (bot = "part_005" /\ h[p].pc = "incWrite" /\ h'[p].pc # "incWrite") =>
         p5_getDailyUsed(quota', h[p].u) = p5_getDailyUsed(quota, h[p].u) + 1]_vars

(***************************************************************************)
(* Properties of part_000                                                  *)
(***************************************************************************)
Expired(row) == row.has_until /\ row.pro_until < now

\* C5: a user whose pro_until lies in the past is handled as a free user:
\* isPro is false for their row, and the check goes ahead only while they
\* have free checks left and today's used count is below DAILY_FREE_LIMIT
C5_ExpiredProIsFree ==
  bot = "part_000" =>
    \A p \in Procs :
      (h[p].pc \in {"fetch", "consume", "incRead", "incWrite", "log"} /\ Expired(h[p].row)) =>
        /\ ~h[p].pro
        /\ h[p].row.free_checks_left > 0
        /\ (h[p].pc = "fetch" => p0_getDailyQuota(quota, h[p].u) < DAILY_FREE_LIMIT)

\* C26: the free limit of part_000 is a limit per day: a free user who has
\* used up one day is allowed again on the next, so a free user is refused
\* only when today's count has reached DAILY_FREE_LIMIT
C26_AllowedAgainNextDay ==
  bot = "part_000" =>
    \A p \in Procs :
      (h[p].pc = "send" /\ h[p].kind = "limit" /\ ~h[p].pro) =>
        p0_getDailyQuota(quota, h[p].u) >= DAILY_FREE_LIMIT

\* C25: bot_quota_daily never holds two rows for one user and one day, also
\* after overlapping first checks of the day
C25_OneRowPerUserDay ==
  bot = "part_000" =>
    \A i, j \in DOMAIN quota :
      (quota[i].u = quota[j].u /\ quota[i].day = quota[j].day) => i = j

(***************************************************************************)
(* Properties of more than one iteration                                   *)
(***************************************************************************)
Ttl == IF bot = "part_001" THEN 24 ELSE CACHE_TTL_HOURS

\* C6: a result is taken from the cache only from a row at most TTL old, and
\* when the provider was asked there was no row or only one older than the TTL
C6_StaleRowsAreMisses ==
  bot \in {"part_004", "part_001"} =>
    \A p \in Procs :
      /\ h[p].hit => (h[p].age >= 0 /\ h[p].age <= Ttl)
      /\ h[p].pc \in {"saveCache", "setCache"} =>
            (~h[p].hit /\ (h[p].age = -1 \/ h[p].age > Ttl))

\* a row written a day and a half ago is passed over and the provider is asked
C6_Witness ==
  /\ bot = "part_004"
  /\ h[1].pc = "saveCache"
  /\ h[1].age > CACHE_TTL_HOURS

ValidTaxId(s) ==
  /\ Len(s) \in {10, 12}
  /\ \A i \in 1..Len(s) : s[i] \in {"0", "1", "2", "3", "4", "5", "6", "7", "8", "9"}

QuotaChanged ==
  \/ quota' # quota
  \/ /\ bot = "part_000"
     /\ \E u \in DOMAIN users : users'[u].free_checks_left # users[u].free_checks_left

ProviderRequested ==
  \E p \in Procs :
    \/ bot = "part_004" /\ h[p].pc = "cache" /\ h'[p].pc = "saveCache"
    \/ bot = "part_000" /\ h[p].pc = "fetch" /\ h'[p].pc # "fetch"

\* C9: a step that asks a provider or changes a quota counter is a step of a
\* handler whose message text, trimmed, is 10 or 12 ASCII digits
C9_OnlyTaxIdsReachProvider ==
  [][(QuotaChanged \/ ProviderRequested) =>
       \E p \in Procs : h'[p] # h[p] /\ ValidTaxId(trim(h[p].txt))]_vars

\* the text "12345" is answered with the hint after an earlier tax id was
\* looked up, and the day's count is still the one of that lookup
C9_Witness ==
  /\ bot = "part_004" /\ cfg.HAS_SB
  /\ h[1].pc = "send" /\ h[1].kind = "hint" /\ h[1].txt = Txt5
  /\ getDailyCount(quota, h[1].u) = 1
  /\ Cardinality(DOMAIN cache) = 1

\* C10: while an update is being processed (every storage, provider and
\* Telegram call), its HTTP response has already been sent with status 200
C10_AckBeforeProcessing ==
  bot \in {"index.js", "part_005"} =>
    \A p \in Procs : h[p].pc # "idle" => h[p].resp = 200

\* acknowledged updates whose processing is at a storage write after a
\* provider failure
C10_Witness ==
  /\ bot = "part_005"
  /\ h[1].pc = "incWrite" /\ h[1].res = "error"
  /\ h[1].resp = 200

\* C12: a handler of a tax-id message that ended because a call threw after
\* the acknowledgement has sent the user a message reporting the failure; it
\* never ends with the error only logged
C12_FailureReported ==
  bot \in {"index.js", "part_005", "part_001"} =>
    \A p \in Procs : ValidTaxId(h[p].txt) => h[p].err # "silent"

\* C13: in part_000 a step that changes free_checks_left or the daily used
\* count is a step of a handler whose provider result has error = null and
\* whose payload normalizeCompany turns into a record
C13_ConsumeAfterSuccess ==
  [][(/\ bot = "part_000"
      /\ \/ quota' # quota
         \/ \E u \in DOMAIN users :
              users'[u].free_checks_left # users[u].free_checks_left)
       => \E p \in Procs :
            /\ h'[p] # h[p]
            /\ h[p].res.error = "null"
            /\ p0_normalizeCompany(h[p].res.raw) # "null"]_vars

\* after one counted check the provider answers with an HTTP error status:
\* the error reply is due and both counters still show the one check
C13_Witness ==
  /\ bot = "part_000"
  /\ h[1].pc = "send" /\ h[1].kind = "error" /\ h[1].res.error = "http"
  /\ Has(users, "u1") /\ users["u1"].plan = "free"
  /\ users["u1"].free_checks_left = DAILY_FREE_LIMIT - 1
  /\ p0_getDailyQuota(quota, "u1") = 1

\* C14: when a free user's lookup failed at the provider and the same user's
\* next lookup of the day succeeds, the day's used count is 1 when the result
\* of the second lookup is sent
C14_RetryChargedOnce ==
  (bot = "part_001" /\ cfg.CHECKO_API_KEY /\ now = 0) =>
    \A p \in Procs :
      (/\ h[p].pc = "send" /\ h[p].kind = "result" /\ ~h[p].pro
       /\ hist[h[p].u].calls = 2
       /\ hist[h[p].u].served = 0
       /\ hist[h[p].u].rejected = 0)
        => p1_quotaRead(quota, h[p].u) = 1

Contains(text, part) ==
  \E i \in 1..(Len(text) - Len(part) + 1) : SubSeq(text, i, i + Len(part) - 1) = part

\* C15: when the result of a cache-miss lookup of part_001 is about to be
\* sent, the cache row of the tax id holds the payload, the user has a
\* check-log row, and the text of the reply contains the name and the status
\* of the payload
C15_LookupEndsComplete ==
  bot = "part_001" =>
    \A p \in Procs :
      (h[p].pc = "send" /\ h[p].kind = "result" /\ ~h[p].hit) =>
        LET payload == P1Payload(h[p].res)
            reply == formatCompanyMessage(pickCompanyInfo(payload), FALSE)
        IN /\ Has(cache, h[p].txt) /\ cache[h[p].txt].result = h[p].res
           /\ Has(checks, h[p].u) /\ checks[h[p].u] >= 1
           /\ Contains(reply, payload.name)
           /\ Contains(reply, payload.status)

\* C16: fetchCheckoCompany of part_000 never throws; it returns error = null
\* exactly for a 2xx response whose body parses to a truthy value without a
\* truthy error field, and then raw is that body; a missing key, a network
\* failure, a non-2xx status, an unparsable or falsy body and a truthy error
\* field each return a non-null error
C16_TypedOutcome ==
  bot = "part_000" =>
    \A p \in Procs :
      h[p].res # NoP0Res =>
        /\ h[p].res.error # "thrown"
        /\ h[p].res.error = "null" <=>
              (/\ cfg.CHECKO_API_KEY
               /\ h[p].net.kind = "response" /\ h[p].net.ok
               /\ h[p].net.body \in {"plain", "errFalsy"})
        /\ h[p].res.error = "null" => h[p].res.raw = h[p].net.body

\* a network failure came back as a returned object with an error
C16_Witness ==
  /\ bot = "part_000"
  /\ h[1].pc = "send" /\ h[1].kind = "error"
  /\ h[1].net.kind = "network"
  /\ h[1].res = [error |-> "network", raw |-> "null"]

\* C16 as stated: error = null only for a 2xx response whose body has no
\* error field at all
C16_NoErrorField ==
  bot = "part_000" =>
    \A p \in Procs :
      (h[p].res # NoP0Res /\ h[p].res.error = "null") => h[p].net.body = "plain"

(***************************************************************************)
(* Properties of the HTML replies                                          *)
(***************************************************************************)
\* the text has no <, no > and no & other than the first character of
\* &amp; &lt; or &gt;
RECURSIVE Escaped(_)
Escaped(t) ==
  IF t = <<>> THEN TRUE
  ELSE IF Head(t) \in {"<", ">"} THEN FALSE
  ELSE IF Head(t) # "&" THEN Escaped(Tail(t))
  ELSE \E e \in {<<"&", "a", "m", "p", ";">>, <<"&", "l", "t", ";">>, <<"&", "g", "t", ";">>} :
         /\ Len(t) >= Len(e)
         /\ SubSeq(t, 1, Len(e)) = e
         /\ Escaped(SubSeq(t, Len(e) + 1, Len(t)))

\* C21: in the HTML replies of formatResult (part_004), formatCompanyResult
\* (part_000) and renderPremiumTelegram (part_005) the text put in for a
\* provider or AI field holds no raw <, > or &
C21_FieldsEscaped ==
  \A p \in Procs :
    h[p].fn \in {"formatResult", "formatCompanyResult", "renderPremiumTelegram"} =>
      \A i \in 1..Len(h[p].msg) :
        h[p].msg[i].field # "-" => Escaped(h[p].msg[i].text)

(***************************************************************************)
(* Properties of normalizeCompany                                          *)
(***************************************************************************)
\* the positions of the candidates of field f that hold a value in data
Present(data, f) ==
  {i \in 1..Len(Candidates[f]) : Read(data, Candidates[f][i]) # ""}

Min(S) == CHOOSE x \in S : \A y \in S : x <= y

\* C22: normalizeCompany of part_000 returns null only for a missing or empty
\* payload; otherwise each field of the record is the first candidate of its
\* list that holds a value, and null ("") when none does, so a payload with
\* only some of the fields yields a partial record
C22_FirstCandidate ==
  \A p \in Procs :
    h[p].fn = "normalizeCompany" =>
      LET arg == h[p].arg
          out == h[p].out
      IN /\ out.null <=> arg.wrap = "falsy"
         /\ ~out.null =>
              \A f \in Fields :
                out.company[f] = IF Present(arg.data, f) = {} THEN ""
                         ELSE Read(arg.data, Candidates[f][Min(Present(arg.data, f))])

\* a payload with two names and nothing else gives a record with the first
\* of the names and no other field
C22_Witness ==
  \E p \in Procs :
    /\ h[p].fn = "normalizeCompany"
    /\ h[p].arg.wrap = "data"
    /\ h[p].arg.data["name"] # "" /\ h[p].arg.data["ip.fio"] # ""
    /\ ~h[p].out.null
    /\ h[p].out.company.name = "at:name"
    /\ h[p].out.company.ogrn = ""

(***************************************************************************)
(* Properties of the PRO test                                              *)
(***************************************************************************)
\* C23: isProActive (part_001) and isPro (part_002) return true exactly for
\* a row whose plan is "pro" and whose expiry is not set or later than now
C23_ProIffPlanAndExpiry ==
  \A p \in Procs :
    h[p].fn \in {"isProActive", "isPro"} =>
      (h[p].out <=> ( /\ h[p].row.plan = "pro"
                      /\ (~h[p].row.has_until \/ h[p].row.pro_until > h[p].at) ))

(***************************************************************************)
(* Properties of part_001                                                  *)
(***************************************************************************)
\* C30: part_001 answers every text that is neither /start nor a valid tax
\* id with a usage hint (and leaves quota, cache and log as they are)
C30_OtherTextGetsHint ==
  bot = "part_001" =>
    \A p \in Procs :
      ( /\ h[p].pc = "idle"
        /\ h[p].txt \notin {<<>>, TxtStart}
        /\ ~p1_isValidInn(h[p].txt) ) =>
        h[p].kind = "hint"

C31_StartEnsuresUser ==
  [][\A p \in Procs :
       ( /\ bot = "index.js"
         /\ cfg.HAS_SB
         /\ h[p].pc = "send"
         /\ h[p].kind = "start"
         /\ h'[p].pc = "idle" ) => Has(users', h[p].u)]_vars


(***************************************************************************)
(* Properties of part_001: storage and send failures                       *)
(***************************************************************************)
\* C32: when the select of the day's quota row fails, the failure is logged,
\* the request goes on as allowed, no counter is written for it, and no
\* reply carries the storage error
C32_SelectFailsOpen ==
  [][\A p \in Procs :
       (bot = "part_001" /\ h'[p].read = SelErr) =>
         /\ h'[p].logged = "quota select error"
         /\ quota' = quota
         /\ h'[p].pc \in {"cache", "setCache", "log", "send"}
         /\ h'[p].kind \in {"-", "result", "error"}
         /\ (h'[p].kind = "error" => h'[p].res = "error")]_vars

C32_Witness ==
  /\ bot = "part_001"
  /\ \E p \in Procs :
       /\ h[p].read = SelErr
       /\ h[p].pc = "send"
       /\ h[p].kind = "result"
       /\ ~Has(quota, <<h[p].u, p1_dayKeyLocal>>)


\* C33: a failing Telegram send while /start is handled is caught by the
\* handler: no rejection is left unhandled
C33_StartSendContained ==
  bot = "part_001" => \A p \in Procs : h[p].err # "unhandledRejection"

(***************************************************************************)
(* Properties of ensureUser (part_005, part_004)                           *)
(***************************************************************************)
\* C34: ensureUser for a user who already has a row leaves the stored plan
\* and pro_until of that row as they were
C34_EnsureUserKeepsPlan ==
  [][\A p \in Procs :
       ( /\ bot = "part_005"
         /\ h[p].pc = "ensureUser"
         /\ h'[p].pc # "ensureUser"
         /\ Has(users, h[p].u) ) =>
         /\ users'[h[p].u].plan = users[h[p].u].plan
         /\ users'[h[p].u].has_until = users[h[p].u].has_until
         /\ users'[h[p].u].pro_until = users[h[p].u].pro_until]_vars


(***************************************************************************)
(* Properties of part_004: the cache branch of handleInn                   *)
(***************************************************************************)
\* C35: on a cache hit handleInn asks no provider, writes exactly one log
\* row, with provider "cache", and raises the day's count of a user who is
\* not PRO by exactly one, that of a PRO user not at all
C35_CacheHitBookkeeping ==
  bot = "part_004" =>
    \A p \in Procs :
      (h[p].pc = "send" /\ h[p].kind = "result" /\ h[p].hit) =>
        /\ h[p].dreq = 0 /\ h[p].creq = 0
        /\ h[p].prov = "cache"
        /\ Has(checks, h[p].u) /\ checks[h[p].u] = h[p].log0 + 1
        /\ getDailyCount(quota, h[p].u) =
             h[p].cnt0 + (IF isProUser(h[p].row) THEN 0 ELSE 1)

C35_Witness ==
  /\ bot = "part_004"
  /\ \E p \in Procs :
       /\ h[p].pc = "send" /\ h[p].kind = "result" /\ h[p].hit
       /\ ~isProUser(h[p].row)
       /\ h[p].cnt0 = 1
       /\ getDailyCount(quota, h[p].u) = 2

(***************************************************************************)
(* Properties of withRetries (part_004)                                    *)
(***************************************************************************)
\* the calls made so far are fn(0), fn(1), ... in this order
CallsInOrder(me) == \A j \in 1..Len(me.calls) : me.calls[j] = j - 1

RetrySafe ==
  \A p \in Procs :
    LET me == h[p]
        k == Len(me.calls)
    IN me.pc \in {"loop", "returned", "threw"} =>
         /\ k <= me.retries + 1
         /\ CallsInOrder(me)
         /\ me.pc = "returned" =>
              /\ k >= 1
              /\ \A j \in 1..(k - 1) : Throws(me.fn[j])
              /\ ~Throws(me.fn[k])
              /\ me.out = me.fn[k]
         /\ me.pc = "threw" =>
              /\ k = me.retries + 1
              /\ \A j \in 1..k : Throws(me.fn[j])
              /\ me.out = me.fn[k]

\* C36: withRetries(fn, r) calls fn at most r + 1 times, returns the result
\* of the first call that does not throw and calls fn no more, throws the
\* error of the last call when all r + 1 calls threw, and always comes to
\* an end
C36_WithRetries ==
  /\ []RetrySafe
  /\ \A p \in Procs : (h[p].pc = "loop") ~> (h[p].pc \in {"returned", "threw"})

C36_Witness ==
  \E p \in Procs :
    /\ h[p].pc = "threw"
    /\ h[p].retries = 1
    /\ h[p].fn[1] = "e1"
    /\ h[p].fn[2] = "e2"
    /\ h[p].out = "e2"
    /\ Len(h[p].calls) = 2


(***************************************************************************)
(* Properties of part_004: an update delivered again                       *)
(***************************************************************************)
\* C37: however often the one update is delivered, the day's count of its
\* sender is raised at most once and at most one log row is written for it
C37_RedeliveryChargedOnce ==
  bot = "part_004" =>
    /\ getDailyCount(quota, "u1") <= 1
    /\ Has(checks, "u1") => checks["u1"] <= 1


(***************************************************************************)
(* Properties of the replies served from the cache                         *)
(***************************************************************************)
\* the pieces of an HTML reply that carry a company field
CompanyPieces(msg) ==
  SelectSeq(msg, LAMBDA piece : piece.field \in {"name", "ogrn", "kpp", "status", "address"})

\* a Markdown reply of part_001 without its last line, the source
WithoutSource(msg) == SubSeq(msg, 1, Len(msg) - 1)

\* C38: the reply rendered from the cache entry of a tax id holds the same
\* company fields, formatted the same way, as the reply rendered when the
\* payload was fetched
C38_CachedReplySameFields ==
  \A p \in Procs :
    h[p].fn = "cached" =>
      IF bot = "part_001"
        THEN WithoutSource(h[p].cached) = WithoutSource(h[p].fresh)
        ELSE CompanyPieces(h[p].cached) = CompanyPieces(h[p].fresh)


(***************************************************************************)
(* Properties of the secret token (part_005, part_002)                     *)
(***************************************************************************)
\* the request the handler last received had no header or a wrong one
WrongHeader(me) ==
  /\ cfg.WEBHOOK_SECRET # ""
  /\ me.hdr # "-"
  /\ me.hdr # cfg.WEBHOOK_SECRET

\* C39: with WEBHOOK_SECRET set, an update whose secret header is missing or
\* different is not handled: the handler is back at rest at once, so there
\* is no storage write, no provider request and no Telegram message for it
C39_WrongSecretDropped ==
  [][\A p \in Procs :
       WrongHeader(h'[p]) =>
         /\ h'[p].pc = "idle"
         /\ h'[p].kind = "-"
         /\ UNCHANGED <<users, quota, cache, checks>>]_vars

C39_Witness ==
  /\ bot = "part_005"
  /\ cfg.WEBHOOK_SECRET = "s1"
  /\ \E p \in Procs : h[p].hdr = "undefined" /\ h[p].pc = "idle" /\ h[p].resp = 200
  /\ n = 2
  /\ Has(users, "u1")

====
